---- MODULE Spec2Model ----
(***************************************************************************)
(* A model of the resoscan DSP core (src/dsp): the FFT engine, linear      *)
(* convolution, impulse-response extraction, sweep-parameter validation,   *)
(* the calibration-file parser, interpolator and correction, fractional-   *)
(* octave smoothing, peak detection, RT60 estimation and the magnitude     *)
(* response.                                                               *)
(*                                                                         *)
(* Arithmetic.  The code computes in IEEE doubles.  The model computes in  *)
(* the exact field Q(sqrt 2): a number is <<a, b, d>> and stands for       *)
(* (a + b*sqrt(2)) / d with d > 0 and gcd(a, b, d) = 1.  This field holds  *)
(* every twiddle factor of the transforms of length 1, 2, 4 and 8, so the  *)
(* transforms of these lengths are computed without rounding.  A number    *)
(* with d = 0 is the one non-finite value the code can produce here, NaN.  *)
(***************************************************************************)
EXTENDS Integers, Sequences, FiniteSets, TLC

VARIABLES
    pc,     \* position of the caller: before the call, after it, ...
    in,     \* the arguments of the call under analysis
    out,    \* the outcome of the call: returned value or thrown error
    re,     \* real parts of the in-place transform buffer
    im,     \* imaginary parts of the in-place transform buffer
    p,      \* the local `p` of nextPowerOfTwo's loop
    heap,   \* the arrays allocated so far: heap[r] is the array with reference r
    hook    \* the React hook under analysis: its state, its refs and its pending callbacks

vars == <<pc, in, out, re, im, p, heap, hook>>

----------------------------------------------------------------------------
(* Exact numbers of Q(sqrt 2)                                              *)

AbsInt(n) == IF n < 0 THEN -n ELSE n

RECURSIVE Gcd(_, _)
Gcd(m, n) == IF n = 0 THEN m ELSE Gcd(n, m % n)

NaN == <<0, 0, 0>>

IsNaN(u) == u[3] = 0

\* the canonical form of (a + b*sqrt 2) / d, d # 0
Q(a, b, d) ==
    IF d = 1 THEN <<a, b, 1>>
    ELSE LET s == IF d < 0 THEN -1 ELSE 1
             g == Gcd(Gcd(AbsInt(a), AbsInt(b)), AbsInt(d))
         IN  <<(s * a) \div g, (s * b) \div g, (s * d) \div g>>

Num(n) == <<n, 0, 1>>

Zero == Num(0)

One == Num(1)

HalfSqrt2 == <<0, 1, 2>>

Add(u, v) ==
    IF IsNaN(u) \/ IsNaN(v) THEN NaN
    ELSE IF u[3] = 1 /\ v[3] = 1 THEN <<u[1] + v[1], u[2] + v[2], 1>>
    ELSE Q(u[1] * v[3] + v[1] * u[3], u[2] * v[3] + v[2] * u[3], u[3] * v[3])

Neg(u) == <<-u[1], -u[2], u[3]>>

Sub(u, v) == Add(u, Neg(v))

Mul(u, v) ==
    IF IsNaN(u) \/ IsNaN(v) THEN NaN
    ELSE Q(u[1] * v[1] + 2 * u[2] * v[2], u[1] * v[2] + u[2] * v[1], u[3] * v[3])

\* u / v as the code's `/`: 0/0 and x/0 are not finite
Div(u, v) ==
    IF IsNaN(u) \/ IsNaN(v) THEN NaN
    ELSE LET n == v[1] * v[1] - 2 * v[2] * v[2]
         IN  IF n = 0 THEN NaN
             ELSE Mul(u, Q(v[1] * v[3], -(v[2] * v[3]), n))

\* the sign of a + b*sqrt 2: -1, 0 or 1
Sgn(u) ==
    LET a == u[1]
        b == u[2]
    IN  IF a = 0 /\ b = 0 THEN 0
        ELSE IF a >= 0 /\ b >= 0 THEN 1
        ELSE IF a <= 0 /\ b <= 0 THEN -1
        ELSE IF a > 0 THEN (IF a * a > 2 * b * b THEN 1 ELSE -1)
        ELSE (IF 2 * b * b > a * a THEN 1 ELSE -1)

\* the code's comparisons; every comparison with NaN is false
Lt(u, v) == ~IsNaN(u) /\ ~IsNaN(v) /\ Sgn(Sub(v, u)) = 1

Le(u, v) == ~IsNaN(u) /\ ~IsNaN(v) /\ Sgn(Sub(v, u)) >= 0

Gt(u, v) == Lt(v, u)

Ge(u, v) == Le(v, u)

\* Math.abs
MathAbs(u) == IF IsNaN(u) THEN NaN ELSE IF Sgn(u) < 0 THEN Neg(u) ELSE u

Ints(s) == [i \in 1..Len(s) |-> Num(s[i])]

Zeros(n) == [i \in 1..n |-> Zero]

\* buffers are 0-indexed in the code and 1-indexed here
At(buf, i) == buf[i + 1]

Put(buf, i, v) == [buf EXCEPT ![i + 1] = v]

----------------------------------------------------------------------------
(* src/dsp/fft.ts                                                          *)

\* n & (n - 1) on the 32-bit integers the model uses: zero exactly when n
\* has a single bit set
RECURSIVE BitAnd(_, _)
BitAnd(x, y) ==
    IF x = 0 \/ y = 0 THEN 0
    ELSE 2 * BitAnd(x \div 2, y \div 2) + (IF x % 2 = 1 /\ y % 2 = 1 THEN 1 ELSE 0)

isPowerOfTwo(n) == n > 0 /\ BitAnd(n, n - 1) = 0

TwoPow30 == 1073741824

MaxInt32 == 2147483647

\* p << 1 as a 32-bit signed shift: the doubled value wraps modulo 2^32
\* into -2^31 .. 2^31 - 1
Shl1(x) ==
    IF x >= TwoPow30 THEN ((x - TwoPow30) * 2 - MaxInt32) - 1
    ELSE IF x < -TwoPow30 THEN ((x + MaxInt32) + 1) * 2
    ELSE 2 * x

\* the loop `while (p < n) p <<= 1`, for the n at which it terminates
RECURSIVE nptLoop(_, _)
nptLoop(q, n) == IF q < n THEN nptLoop(Shl1(q), n) ELSE q

nextPowerOfTwo(n) == IF n <= 1 THEN 1 ELSE nptLoop(1, n)

Min(a, b) == IF a < b THEN a ELSE b

\* realToComplex(signal, N) with an explicit length
realToComplex(signal, N) ==
    IF ~isPowerOfTwo(N) THEN [kind |-> "throw", error |-> "RangeError"]
    ELSE [kind |-> "return",
          re |-> [i \in 1..N |-> IF i <= Min(Len(signal), N) THEN signal[i] ELSE Zero],
          im |-> Zeros(N)]

RECURSIVE reverseBitsLoop(_, _, _, _)
reverseBitsLoop(x, bits, i, result) ==
    IF i >= bits THEN result
    ELSE reverseBitsLoop(x \div 2, bits, i + 1, 2 * result + (x % 2))

reverseBits(x, bits) == reverseBitsLoop(x, bits, 0, 0)

RECURSIVE Log2(_)
Log2(n) == IF n <= 1 THEN 0 ELSE 1 + Log2(n \div 2)

Swap(buf, i, j) == [buf EXCEPT ![i + 1] = buf[j + 1], ![j + 1] = buf[i + 1]]

\* the buffer pair <<re, im>> after the i-th and later iterations of the
\* permutation loop
RECURSIVE bitReverseLoop(_, _, _)
bitReverseLoop(buf, N, i) ==
    IF i >= N THEN buf
    ELSE IF reverseBits(i, Log2(N)) > i
         THEN bitReverseLoop(<<Swap(buf[1], i, reverseBits(i, Log2(N))),
                               Swap(buf[2], i, reverseBits(i, Log2(N)))>>, N, i + 1)
         ELSE bitReverseLoop(buf, N, i + 1)

bitReverse(r, m, N) == bitReverseLoop(<<r, m>>, N, 0)

\* Math.cos(-2*PI/size) and Math.sin(-2*PI/size), exact for the sizes the
\* field holds
TwiddleCos(size) ==
    CASE size = 2 -> Num(-1)
      [] size = 4 -> Zero
      [] size = 8 -> HalfSqrt2

TwiddleSin(size) ==
    CASE size = 2 -> Zero
      [] size = 4 -> Num(-1)
      [] size = 8 -> Neg(HalfSqrt2)

\* real and imaginary part of the complex product (aRe, aIm) * (bRe, bIm)
cmulRe(aRe, aIm, bRe, bIm) == Sub(Mul(aRe, bRe), Mul(aIm, bIm))

cmulIm(aRe, aIm, bRe, bIm) == Add(Mul(aRe, bIm), Mul(aIm, bRe))

\* the four stores of one butterfly: x[odd] = x[even] - t; x[even] += t
butterflyStore(r, m, even, odd, tRe, tIm) ==
    <<Put(Put(r, odd, Sub(At(r, even), tRe)), even, Add(At(r, even), tRe)),
      Put(Put(m, odd, Sub(At(m, even), tIm)), even, Add(At(m, even), tIm))>>

\* one butterfly with twiddle (twRe, twIm)
butterfly(r, m, even, odd, twRe, twIm) ==
    butterflyStore(r, m, even, odd,
                   cmulRe(twRe, twIm, At(r, odd), At(m, odd)),
                   cmulIm(twRe, twIm, At(r, odd), At(m, odd)))

\* the inner loop over j of one block of one pass; the twiddle advances by
\* a complex multiplication with (wRe, wIm)
RECURSIVE butterflyLoop(_, _, _, _, _, _)
butterflyLoop(buf, size, start, j, twRe, twIm) ==
    IF j >= size \div 2 THEN buf
    ELSE butterflyLoop(
            butterfly(buf[1], buf[2], start + j, start + j + size \div 2, twRe, twIm),
            size, start, j + 1,
            cmulRe(twRe, twIm, TwiddleCos(size), TwiddleSin(size)),
            cmulIm(twRe, twIm, TwiddleCos(size), TwiddleSin(size)))

\* the loop over the blocks of one pass
RECURSIVE blockLoop(_, _, _, _)
blockLoop(buf, N, size, start) ==
    IF start >= N THEN buf
    ELSE blockLoop(butterflyLoop(buf, size, start, 0, One, Zero), N, size, start + size)

\* the loop over the passes
RECURSIVE passLoop(_, _, _)
passLoop(buf, N, size) ==
    IF size > N THEN buf
    ELSE passLoop(blockLoop(buf, N, size, 0), N, 2 * size)

\* the outcome of a transform call: how it ended and what the two buffers
\* hold afterwards
Returned(buf) == [kind |-> "return", error |-> "", re |-> buf[1], im |-> buf[2]]

Thrown(buf) == [kind |-> "throw", error |-> "RangeError", re |-> buf[1], im |-> buf[2]]

\* fft(re, im)
fft(r, m) ==
    IF Len(r) # Len(m) THEN Thrown(<<r, m>>)
    ELSE IF ~isPowerOfTwo(Len(r)) THEN Thrown(<<r, m>>)
    ELSE IF Len(r) <= 1 THEN Returned(<<r, m>>)
    ELSE Returned(passLoop(bitReverse(r, m, Len(r)), Len(r), 2))

\* the first loop of ifft: im[i] = -im[i] for i < N = re.length; a store
\* past the end of im is dropped
conjugate(m, N) == [i \in 1..Len(m) |-> IF i <= N THEN Neg(m[i]) ELSE m[i]]

\* the last loop of ifft without the conjugation
scale_noConj(f, N) ==
    IF f.kind = "throw" THEN f
    ELSE [kind |-> "return", error |-> "",
          re |-> [i \in 1..N |-> Mul(f.re[i], Div(One, Num(N)))],
          im |-> [i \in 1..Len(f.im) |-> Mul(f.im[i], Div(One, Num(N)))]]

\* the last loop of ifft, reached when fft has not thrown:
\* re[i] *= invN; im[i] = -im[i] * invN
conjugateAndScale(f, N) ==
    IF f.kind = "throw" THEN f
    ELSE [kind |-> "return", error |-> "",
          re |-> [i \in 1..N |-> Mul(f.re[i], Div(One, Num(N)))],
          im |-> [i \in 1..Len(f.im) |-> Mul(Neg(f.im[i]), Div(One, Num(N)))]]

\* ifft(re, im)
ifft(r, m) == conjugateAndScale(fft(r, conjugate(m, Len(r))), Len(r))

----------------------------------------------------------------------------
(* convolve.ts                                                             *)

\* Storing a double into a Float32Array rounds it to single precision.  The
\* model's samples are exact; an integer below 2^24 in magnitude is stored
\* unchanged, and the model keeps every other value exact as well.
fround(x) == x

\* realToComplex(signal, N) followed by fft on the two buffers it returns
spectrum(signal, N) == fft(realToComplex(signal, N).re, realToComplex(signal, N).im)

\* the point-wise complex product C = A * B, followed by ifft(cRe, cIm)
inverseOfProduct(fa, fb, N) ==
    ifft([i \in 1..N |-> cmulRe(fa.re[i], fa.im[i], fb.re[i], fb.im[i])],
         [i \in 1..N |-> cmulIm(fa.re[i], fa.im[i], fb.re[i], fb.im[i])])

\* the first outLen real parts, stored into a Float32Array; reading past
\* the end of cRe yields undefined, stored as NaN
truncate(c, outLen) ==
    [i \in 1..outLen |-> IF i <= Len(c.re) THEN fround(c.re[i]) ELSE NaN]

\* the body of convolve for non-empty inputs, with transform size N
convolveSized(a, b, outLen, N) ==
    truncate(inverseOfProduct(spectrum(a, N), spectrum(b, N), N), outLen)

\* convolve with the transform sized for the longer input only, so that
\* the tail of the product wraps around
convolve_circular(a, b) ==
    IF Len(a) = 0 \/ Len(b) = 0 THEN <<>>
    ELSE convolveSized(a, b, Len(a) + Len(b) - 1,
                       nextPowerOfTwo(IF Len(a) > Len(b) THEN Len(a) ELSE Len(b)))

\* convolve(a, b)
convolve(a, b) ==
    IF Len(a) = 0 \/ Len(b) = 0 THEN <<>>
    ELSE convolveSized(a, b, Len(a) + Len(b) - 1, nextPowerOfTwo(Len(a) + Len(b) - 1))

----------------------------------------------------------------------------
(* deconvolve.ts                                                           *)

RECURSIVE findPeakLoop(_, _, _, _)
findPeakLoop(buffer, i, maxAbs, idx) ==
    IF i >= Len(buffer) THEN idx
    ELSE IF Gt(MathAbs(At(buffer, i)), maxAbs)
         THEN findPeakLoop(buffer, i + 1, MathAbs(At(buffer, i)), i)
         ELSE findPeakLoop(buffer, i + 1, maxAbs, idx)

\* the scan taking the latest of several equal maxima (`>=` for `>`)
findPeakIndex_last(buffer) ==
    IF Len(buffer) = 0 THEN 0
    ELSE CHOOSE i \in 0..(Len(buffer) - 1) :
            /\ \A j \in 0..(Len(buffer) - 1) :
                  Le(MathAbs(At(buffer, j)), MathAbs(At(buffer, i)))
            /\ \A j \in (i + 1)..(Len(buffer) - 1) :
                  Lt(MathAbs(At(buffer, j)), MathAbs(At(buffer, i)))

\* the scan comparing the samples themselves in place of their magnitudes
findPeakIndex_signed(buffer) ==
    IF Len(buffer) = 0 THEN 0
    ELSE LET best == CHOOSE i \in 0..(Len(buffer) - 1) :
                        /\ \A j \in 0..(Len(buffer) - 1) : Le(At(buffer, j), At(buffer, i))
                        /\ \A j \in 0..(i - 1) : Lt(At(buffer, j), At(buffer, i))
         IN  IF Gt(At(buffer, best), Zero) THEN best ELSE 0

findPeakIndex(buffer) ==
    IF Len(buffer) = 0 THEN 0 ELSE findPeakLoop(buffer, 0, Zero, 0)

\* maxLengthSamples is optional: <<>> when absent, <<n>> when given
NoCap == <<>>

\* rawPeak = Math.abs(raw[peakIndex]); reading past the end of raw yields
\* undefined, whose Math.abs is NaN
rawPeakOf(raw, peakIndex) ==
    IF peakIndex < Len(raw) THEN MathAbs(At(raw, peakIndex)) ELSE NaN

\* irLength
irLengthOf(afterPeak, maxLengthSamples) ==
    IF maxLengthSamples # NoCap THEN Min(maxLengthSamples[1], afterPeak) ELSE afterPeak

\* step 4: ir[i] *= 1 / rawPeak, when rawPeak > 0
normalise(ir, rawPeak) ==
    IF Gt(rawPeak, Zero)
    THEN [i \in 1..Len(ir) |-> fround(Mul(ir[i], Div(One, rawPeak)))]
    ELSE ir

\* steps 3 and 4 of extractImpulseResponse, and its result
alignAndNormalise(raw, peakIndex, rawPeak, irLength) ==
    [ir |-> normalise([i \in 1..irLength |-> At(raw, peakIndex + i - 1)], rawPeak),
     peakIndex |-> peakIndex,
     rawPeak |-> rawPeak]

\* steps 2 to 4, given the peak index
extractAt(raw, peakIndex, maxLengthSamples) ==
    alignAndNormalise(raw, peakIndex, rawPeakOf(raw, peakIndex),
                      irLengthOf(Len(raw) - peakIndex, maxLengthSamples))

\* steps 2 to 4
extractFrom(raw, maxLengthSamples) ==
    extractAt(raw, findPeakIndex(raw), maxLengthSamples)

\* extractImpulseResponse(recording, inverseFilter, maxLengthSamples):
\* step 1 computes raw once, steps 2 to 4 work on it
extractImpulseResponse(recording, inverseFilter, maxLengthSamples) ==
    CHOOSE result \in {extractFrom(raw, maxLengthSamples) :
                          raw \in {convolve(recording, inverseFilter)}} : TRUE

----------------------------------------------------------------------------
(* Sweep parameters are JavaScript numbers: a finite value (held exactly   *)
(* as a number of the arithmetic above), +Infinity, -Infinity or NaN.      *)

Fin(q) == [k |-> "fin", v |-> q]

Infinity == [k |-> "inf", v |-> One]

NegInfinity == [k |-> "inf", v |-> Neg(One)]

NotANumber == [k |-> "nan", v |-> Zero]

\* the sign of a number that is not NaN
jsSign(x) == Sgn(x.v)

\* x < y
jsLt(x, y) ==
    /\ x.k # "nan"
    /\ y.k # "nan"
    /\ IF x.k = "inf" THEN jsSign(x) < 0 /\ y # x
       ELSE IF y.k = "inf" THEN jsSign(y) > 0
       ELSE Lt(x.v, y.v)

\* x <= y
jsLe(x, y) == jsLt(x, y) \/ (x.k # "nan" /\ x = y)

\* x > y
jsGt(x, y) == jsLt(y, x)

\* x * y
jsMul(x, y) ==
    IF x.k = "nan" \/ y.k = "nan" THEN NotANumber
    ELSE IF x.k = "inf" \/ y.k = "inf"
         THEN IF jsSign(x) * jsSign(y) = 0 THEN NotANumber
              ELSE IF jsSign(x) * jsSign(y) > 0 THEN Infinity ELSE NegInfinity
         ELSE Fin(Mul(x.v, y.v))

\* x / 2
jsHalf(x) == IF x.k = "fin" THEN Fin(Div(x.v, Num(2))) ELSE x

\* Math.round(x): the nearest integer, halves towards +Infinity
MathRound(x) ==
    IF x.k = "fin" THEN Fin(Num((2 * x.v[1] + x.v[3]) \div (2 * x.v[3]))) ELSE x

RangeError(message) == [kind |-> "throw", error |-> "RangeError", message |-> message]

\* new Float32Array(length): the length goes through ToIndex (NaN is 0, a
\* negative or infinite length is a RangeError); the buffer is held by its
\* length
newFloat32Array(length) ==
    IF length.k = "nan" THEN [kind |-> "return", length |-> 0]
    ELSE IF length.k = "inf" \/ jsSign(length) < 0
         THEN RangeError("Invalid typed array length")
         ELSE [kind |-> "return", length |-> length.v[1]]

Passed == "passed"

\* validateSweepParams(params): the message of the RangeError it throws, or
\* Passed
validateSweepParams_lateNyquist(params) ==
    IF jsLe(params.fStart, Fin(Zero)) THEN "fStart must be > 0"
    ELSE IF jsLe(params.fEnd, params.fStart) THEN "fEnd must be > fStart"
    ELSE IF jsLe(params.durationSec, Fin(Zero)) THEN "durationSec must be > 0"
    ELSE IF jsLe(params.sampleRate, Fin(Zero)) THEN "sampleRate must be > 0"
    ELSE IF jsGt(params.fEnd, params.sampleRate)
         THEN "fEnd must be <= sampleRate / 2 (Nyquist)"
         ELSE Passed

validateSweepParams(params) ==
    IF jsLe(params.fStart, Fin(Zero)) THEN "fStart must be > 0"
    ELSE IF jsLe(params.fEnd, params.fStart) THEN "fEnd must be > fStart"
    ELSE IF jsLe(params.durationSec, Fin(Zero)) THEN "durationSec must be > 0"
    ELSE IF jsLe(params.sampleRate, Fin(Zero)) THEN "sampleRate must be > 0"
    ELSE IF jsGt(params.fEnd, jsHalf(params.sampleRate))
         THEN "fEnd must be <= sampleRate / 2 (Nyquist)"
         ELSE Passed

\* generateLogSweep(params): validation, then the output buffer of
\* Math.round(durationSec * sampleRate) samples; filling it cannot throw
generateLogSweep(params) ==
    IF validateSweepParams(params) # Passed
    THEN RangeError(validateSweepParams(params))
    ELSE newFloat32Array(MathRound(jsMul(params.durationSec, params.sampleRate)))

\* the rest of generateInverseFilter once the sweep is there: a buffer of
\* sweep.length samples, time-reversed and normalised
inverseOf(sweep) ==
    IF sweep.kind = "throw" THEN sweep ELSE newFloat32Array(Fin(Num(sweep.length)))

\* generateInverseFilter(params): validation, the sweep without fades, then
\* the inverse buffer
generateInverseFilter(params) ==
    IF validateSweepParams(params) # Passed
    THEN RangeError(validateSweepParams(params))
    ELSE inverseOf(generateLogSweep(params))

----------------------------------------------------------------------------
(* calibration.ts: the file parser.  A string is the sequence of its       *)
(* characters.                                                             *)

\* the characters \s matches, among those of the texts
WhiteSpace == {" ", "\t", "\r", "\n"}

\* the characters [\s,] matches
Separators == WhiteSpace \cup {","}

Digits == {"0", "1", "2", "3", "4", "5", "6", "7", "8", "9"}

DigitValue(c) ==
    CASE c = "0" -> 0 [] c = "1" -> 1 [] c = "2" -> 2 [] c = "3" -> 3
      [] c = "4" -> 4 [] c = "5" -> 5 [] c = "6" -> 6 [] c = "7" -> 7
      [] c = "8" -> 8 [] c = "9" -> 9

\* text.split(/\r?\n/), the scan from character i on: cur is the line begun,
\* done the lines finished; a CR right before the LF belongs to the break
RECURSIVE splitLinesFrom(_, _, _, _)
splitLinesFrom(text, i, cur, done) ==
    IF i > Len(text) THEN Append(done, cur)
    ELSE IF text[i] = "\n"
         THEN splitLinesFrom(text, i + 1, <<>>,
                  Append(done, IF Len(cur) > 0 /\ cur[Len(cur)] = "\r"
                               THEN SubSeq(cur, 1, Len(cur) - 1) ELSE cur))
         ELSE splitLinesFrom(text, i + 1, Append(cur, text[i]), done)

splitLines(text) == splitLinesFrom(text, 1, <<>>, <<>>)

RECURSIVE trimStart(_)
trimStart(line) ==
    IF Len(line) > 0 /\ line[1] \in WhiteSpace THEN trimStart(Tail(line)) ELSE line

RECURSIVE trimEnd(_)
trimEnd(line) ==
    IF Len(line) > 0 /\ line[Len(line)] \in WhiteSpace
    THEN trimEnd(SubSeq(line, 1, Len(line) - 1)) ELSE line

\* String.prototype.trim
trim(line) == trimEnd(trimStart(line))

\* line.startsWith(c) for a single character c
startsWith(line, c) == Len(line) > 0 /\ line[1] = c

\* line.split(/[\s,]+/), the scan from character i on: every maximal run of
\* separators is one break, so a leading or trailing run leaves an empty part
RECURSIVE splitPartsFrom(_, _, _, _)
splitPartsFrom(line, i, cur, parts) ==
    IF i > Len(line) THEN Append(parts, cur)
    ELSE IF line[i] \in Separators
         THEN IF i > 1 /\ line[i - 1] \in Separators
              THEN splitPartsFrom(line, i + 1, cur, parts)
              ELSE splitPartsFrom(line, i + 1, <<>>, Append(parts, cur))
         ELSE splitPartsFrom(line, i + 1, Append(cur, line[i]), parts)

splitParts(line) == splitPartsFrom(line, 1, <<>>, <<>>)

\* the value of a run of decimal digits read after acc
RECURSIVE digitsValue(_, _)
digitsValue(chars, acc) ==
    IF Len(chars) = 0 THEN acc
    ELSE digitsValue(Tail(chars), 10 * acc + DigitValue(chars[1]))

RECURSIVE Pow10(_)
Pow10(k) == IF k = 0 THEN 1 ELSE 10 * Pow10(k - 1)

AllDigits(chars) == \A i \in 1..Len(chars) : chars[i] \in Digits

\* the first index of a "." in chars, or 0
DotAt(chars) ==
    IF \E i \in 1..Len(chars) : chars[i] = "."
    THEN CHOOSE i \in 1..Len(chars) : chars[i] = "." /\ \A j \in 1..(i - 1) : chars[j] # "."
    ELSE 0

\* an unsigned decimal literal: digits, digits "." digits, "." digits
unsignedDecimal(chars) ==
    IF DotAt(chars) = 0
    THEN IF Len(chars) > 0 /\ AllDigits(chars) THEN Num(digitsValue(chars, 0)) ELSE NaN
    ELSE IF /\ Len(chars) > 1
            /\ AllDigits(SubSeq(chars, 1, DotAt(chars) - 1))
            /\ AllDigits(SubSeq(chars, DotAt(chars) + 1, Len(chars)))
         THEN Q(digitsValue(SubSeq(chars, 1, DotAt(chars) - 1) \o
                            SubSeq(chars, DotAt(chars) + 1, Len(chars)), 0),
                0, Pow10(Len(chars) - DotAt(chars)))
         ELSE NaN

\* Number(token) for a token of digits, ".", "-", "+" and letters that begin
\* no numeric literal: the empty string is 0, a signed decimal literal its
\* value, anything else NaN
Number(token) ==
    IF Len(token) = 0 THEN Zero
    ELSE IF token[1] = "-" THEN Neg(unsignedDecimal(Tail(token)))
    ELSE IF token[1] = "+" THEN unsignedDecimal(Tail(token))
    ELSE unsignedDecimal(token)

\* Number.isFinite for the values Number gives here (none is infinite)
NumberIsFinite(x) == ~IsNaN(x)

\* an Error whose message cites a line (1-based), says what is wrong and
\* quotes the offending text; line 0 when the message cites no line
CalibrationError(line, text, got) ==
    [kind |-> "throw", error |-> "Error",
     message |-> [line |-> line, text |-> text, got |-> got]]

TooFewPoints ==
    CalibrationError(0, "Calibration file must contain at least 2 data points", <<>>)

\* one step of the insertion: pt goes behind every point whose freq is not
\* larger, which keeps the sort stable
RECURSIVE insertByFreq(_, _)
insertByFreq(sorted, pt) ==
    IF Len(sorted) = 0 THEN <<pt>>
    ELSE IF Gt(sorted[Len(sorted)].freq, pt.freq)
         THEN Append(insertByFreq(SubSeq(sorted, 1, Len(sorted) - 1), pt),
                     sorted[Len(sorted)])
         ELSE Append(sorted, pt)

RECURSIVE sortFrom(_, _, _)
sortFrom(points, i, sorted) ==
    IF i > Len(points) THEN sorted
    ELSE sortFrom(points, i + 1, insertByFreq(sorted, points[i]))

\* points.sort((a, b) => a.freq - b.freq)
sortByFreq_unsorted(points) == points

sortByFreq(points) == sortFrom(points, 1, <<>>)

\* the end of parseCalibrationFile, after the loop over the lines
parseEnd(points, filename) ==
    IF Len(points) < 2 THEN TooFewPoints
    ELSE [kind |-> "return",
          value |-> [filename |-> filename, points |-> sortByFreq(points)]]

\* the body of the loop for a data line, already trimmed and split
parseParts(lineNum, line, parts) ==
    IF Len(parts) < 2
    THEN CalibrationError(lineNum + 1, "expected freq dB", line)
    ELSE IF ~NumberIsFinite(Number(parts[1])) \/ Le(Number(parts[1]), Zero)
    THEN CalibrationError(lineNum + 1, "invalid frequency", parts[1])
    ELSE IF ~NumberIsFinite(Number(parts[2]))
    THEN CalibrationError(lineNum + 1, "invalid dB value", parts[2])
    ELSE [kind |-> "push", point |-> [freq |-> Number(parts[1]), db |-> Number(parts[2])]]

\* a trimmed line the loop skips
isSkipped(line) == line = <<>> \/ startsWith(line, "#") \/ startsWith(line, "*")

\* the loop of parseCalibrationFile from the 0-based lineNum on
RECURSIVE parseLoop(_, _, _, _)

parseStep(lines, lineNum, points, filename, step) ==
    IF step.kind = "throw" THEN step
    ELSE parseLoop(lines, lineNum + 1, Append(points, step.point), filename)

parseLoop(lines, lineNum, points, filename) ==
    IF lineNum >= Len(lines) THEN parseEnd(points, filename)
    ELSE IF isSkipped(trim(lines[lineNum + 1]))
         THEN parseLoop(lines, lineNum + 1, points, filename)
         ELSE parseStep(lines, lineNum, points, filename,
                        parseParts(lineNum, trim(lines[lineNum + 1]),
                                   splitParts(trim(lines[lineNum + 1]))))

parseCalibrationFile(text, filename) == parseLoop(splitLines(text), 0, <<>>, filename)

----------------------------------------------------------------------------
(* calibration.ts: interpolation.  The frequencies are powers of ten, so   *)
(* that Math.log10 is exact.                                               *)

RECURSIVE Log10Int(_)
Log10Int(n) == IF n < 10 THEN 0 ELSE 1 + Log10Int(n \div 10)

\* Math.log10 of a power of ten 10^k, k >= 0
MathLog10(x) == Num(Log10Int(x[1]))

\* calibration.map((p) => Math.log10(p.freq))
calLogFreqsOf(calibration) ==
    [i \in 1..Len(calibration) |-> MathLog10(calibration[i].freq)]

\* calibration.map((p) => p.db)
calDbsOf(calibration) == [i \in 1..Len(calibration) |-> calibration[i].db]

\* the binary search `while (hi - lo > 1)` from (lo, hi) on; gives the final
\* <<lo, hi>>
RECURSIVE searchLoop_strict(_, _, _, _)
searchLoop_strict(calLogFreqs, logFreq, lo, hi) ==
    IF hi - lo > 1
    THEN IF Lt(At(calLogFreqs, (lo + hi) \div 2), logFreq)
         THEN searchLoop_strict(calLogFreqs, logFreq, (lo + hi) \div 2, hi)
         ELSE searchLoop_strict(calLogFreqs, logFreq, lo, (lo + hi) \div 2)
    ELSE <<lo, hi>>

RECURSIVE searchLoop(_, _, _, _)
searchLoop(calLogFreqs, logFreq, lo, hi) ==
    IF hi - lo > 1
    THEN IF Le(At(calLogFreqs, (lo + hi) \div 2), logFreq)
         THEN searchLoop(calLogFreqs, logFreq, (lo + hi) \div 2, hi)
         ELSE searchLoop(calLogFreqs, logFreq, lo, (lo + hi) \div 2)
    ELSE <<lo, hi>>

\* `calDbs[lo] + t * (calDbs[hi] - calDbs[lo])` with t the position of logFreq
\* between calLogFreqs[lo] and calLogFreqs[hi]; the linear variant takes the
\* position between the frequencies themselves
between_linear(calLogFreqs, calDbs, logFreq, lo, hi) ==
    Add(At(calDbs, lo),
        Mul(Div(Sub(Num(10 ^ logFreq[1]), Num(10 ^ At(calLogFreqs, lo)[1])),
                Sub(Num(10 ^ At(calLogFreqs, hi)[1]), Num(10 ^ At(calLogFreqs, lo)[1]))),
            Sub(At(calDbs, hi), At(calDbs, lo))))

between(calLogFreqs, calDbs, logFreq, lo, hi) ==
    Add(At(calDbs, lo),
        Mul(Div(Sub(logFreq, At(calLogFreqs, lo)),
                Sub(At(calLogFreqs, hi), At(calLogFreqs, lo))),
            Sub(At(calDbs, hi), At(calDbs, lo))))

interpolateBetween(calLogFreqs, calDbs, logFreq, lohi) ==
    between(calLogFreqs, calDbs, logFreq, lohi[1], lohi[2])

\* the callback of targetFreqs.map for one target with logarithm logFreq
interpolateAt(calLogFreqs, calDbs, logFreq) ==
    IF Le(logFreq, At(calLogFreqs, 0)) THEN At(calDbs, 0)
    ELSE IF Ge(logFreq, At(calLogFreqs, Len(calLogFreqs) - 1))
         THEN At(calDbs, Len(calDbs) - 1)
         ELSE interpolateBetween(calLogFreqs, calDbs, logFreq,
                  searchLoop(calLogFreqs, logFreq, 0, Len(calLogFreqs) - 1))

interpolateCalibration(calibration, targetFreqs) ==
    IF Len(calibration) = 0 THEN [i \in 1..Len(targetFreqs) |-> Zero]
    ELSE [i \in 1..Len(targetFreqs) |->
             interpolateAt(calLogFreqsOf(calibration), calDbsOf(calibration),
                           MathLog10(targetFreqs[i]))]

----------------------------------------------------------------------------
(* calibration.ts: applying a calibration.  Arrays are objects: an array   *)
(* is known by its reference r, and h[r] holds its elements.               *)

\* what a call leaves: the heap after it and the reference it returns
Left(h, value) == [heap |-> h, value |-> value]

\* points.map((p) => p.freq)
freqsOf(points) == [i \in 1..Len(points) |-> points[i].freq]

\* points.map((p, i) => ({ freq: p.freq, db: p.db + corrections[i] }))
corrected(points, corrections) ==
    [i \in 1..Len(points) |->
        [freq |-> points[i].freq, db |-> Add(points[i].db, corrections[i])]]

\* applyCalibration(points, calibration) on the heap h; points and
\* calibration.points are references
applyCalibration_inPlace(h, points, calibration) ==
    IF Len(h[points]) = 0 \/ Len(h[calibration.points]) = 0
    THEN Left(h, points)
    ELSE Left([h EXCEPT ![points] =
                  corrected(h[points],
                            interpolateCalibration(h[calibration.points],
                                                   freqsOf(h[points])))],
              points)

applyCalibration(h, points, calibration) ==
    IF Len(h[points]) = 0 \/ Len(h[calibration.points]) = 0
    THEN Left(h, points)
    ELSE Left(Append(h, corrected(h[points],
                                  interpolateCalibration(h[calibration.points],
                                                         freqsOf(h[points])))),
              Len(h) + 1)

----------------------------------------------------------------------------
(* smoothing.ts: fractional-octave smoothing.  The frequencies are powers  *)
(* of two, so that Math.log2 is exact.                                     *)

\* an argument left out
Undefined == [k |-> "undefined", v |-> Zero]

\* !x for a number or undefined
isFalsy(x) == x.k \in {"undefined", "nan"} \/ (x.k = "fin" /\ x.v = Zero)

\* x >= y
jsGe(x, y) == jsLe(y, x)

\* -x
jsNeg(x) == [k |-> x.k, v |-> Neg(x.v)]

\* x + y
jsAdd(x, y) ==
    IF x.k = "nan" \/ y.k = "nan" THEN NotANumber
    ELSE IF x.k = "inf" THEN (IF y.k = "inf" /\ y # x THEN NotANumber ELSE x)
    ELSE IF y.k = "inf" THEN y
    ELSE Fin(Add(x.v, y.v))

\* x - y
jsSub(x, y) == jsAdd(x, jsNeg(y))

\* Math.log2 of a power of two 2^k, k >= 0
MathLog2(x) == Fin(Num(Log2(x[1])))

\* the buffer log2Freqs
log2FreqsOf(points) == [i \in 1..Len(points) |-> MathLog2(points[i].freq)]

\* `const halfOctave = fractionOfOctave / 2`
halfOctaveOf_whole(fractionOfOctave) == fractionOfOctave

halfOctaveOf(fractionOfOctave) == jsHalf(fractionOfOctave)

\* `while (lo > 0 && log2Freqs[lo - 1] >= loLog2) lo--` from lo on
RECURSIVE scanLo(_, _, _)
scanLo(log2Freqs, lo, loLog2) ==
    IF lo > 0 /\ jsGe(At(log2Freqs, lo - 1), loLog2)
    THEN scanLo(log2Freqs, lo - 1, loLog2) ELSE lo

\* `while (hi < points.length - 1 && log2Freqs[hi + 1] <= hiLog2) hi++`
RECURSIVE scanHi(_, _, _)
scanHi(log2Freqs, hi, hiLog2) ==
    IF hi < Len(log2Freqs) - 1 /\ jsLe(At(log2Freqs, hi + 1), hiLog2)
    THEN scanHi(log2Freqs, hi + 1, hiLog2) ELSE hi

\* `for (let j = lo; j <= hi; j++) sum += points[j].db` from j on
RECURSIVE sumDbs(_, _, _, _)
sumDbs(points, j, hi, sum) ==
    IF j <= hi THEN sumDbs(points, j + 1, hi, Add(sum, At(points, j).db)) ELSE sum

\* result[i] for the window lo .. hi
windowMean(points, i, lo, hi) ==
    [freq |-> At(points, i).freq,
     db |-> Div(sumDbs(points, lo, hi, Zero), Num(hi - lo + 1))]

\* the body of the loop over i
smoothedAt(points, log2Freqs, i, halfOctave) ==
    windowMean(points, i,
               scanLo(log2Freqs, i, jsSub(At(log2Freqs, i), halfOctave)),
               scanHi(log2Freqs, i, jsAdd(At(log2Freqs, i), halfOctave)))

smoothed(points, halfOctave) ==
    [i \in 1..Len(points) |-> smoothedAt(points, log2FreqsOf(points), i - 1, halfOctave)]

\* smoothFrequencyResponse(points, fractionOfOctave) on the heap h; points
\* is a reference
smoothFrequencyResponse_noEmptyCheck(h, points, fractionOfOctave) ==
    IF isFalsy(fractionOfOctave) \/ jsLe(fractionOfOctave, Fin(Zero))
    THEN Left(h, points)
    ELSE Left(Append(h, smoothed(h[points], halfOctaveOf(fractionOfOctave))),
              Len(h) + 1)

smoothFrequencyResponse(h, points, fractionOfOctave) ==
    IF isFalsy(fractionOfOctave) \/ jsLe(fractionOfOctave, Fin(Zero))
           \/ Len(h[points]) = 0
    THEN Left(h, points)
    ELSE Left(Append(h, smoothed(h[points], halfOctaveOf(fractionOfOctave))),
              Len(h) + 1)

----------------------------------------------------------------------------
(* peakDetection.ts.  An option is <<v>> when given and <<>> when left     *)
(* out; a band label is <<label>> and null is <<>>.                        *)

Null == <<>>

DefaultMinProminence == 3

DefaultMaxPeaks == 10

Band(label, minHz, maxHz) == [label |-> label, minHz |-> Num(minHz), maxHz |-> Num(maxHz)]

DEFAULT_BANDS == <<Band("Room modes", 20, 300), Band("Mid / High", 300, 15000)>>

\* the value of a destructured option with its default
optionOr(option, default) == IF option = <<>> THEN default ELSE option[1]

\* Math.max
MathMax(u, v) == IF IsNaN(u) \/ IsNaN(v) THEN NaN ELSE IF Lt(u, v) THEN v ELSE u

\* classifyBand(freq, bands), the loop from the i-th band on
RECURSIVE classifyFrom(_, _, _)
classifyFrom(freq, bands, i) ==
    IF i > Len(bands) THEN Null
    ELSE IF Ge(freq, bands[i].minHz) /\ Lt(freq, bands[i].maxHz)
         THEN <<bands[i].label>>
         ELSE classifyFrom(freq, bands, i + 1)

classifyBand_inclusiveMax(freq, bands) ==
    IF \E i \in 1..Len(bands) : Ge(freq, bands[i].minHz) /\ Le(freq, bands[i].maxHz)
    THEN <<bands[CHOOSE i \in 1..Len(bands) :
                    /\ Ge(freq, bands[i].minHz) /\ Le(freq, bands[i].maxHz)
                    /\ \A j \in 1..(i - 1) :
                          ~(Ge(freq, bands[j].minHz) /\ Le(freq, bands[j].maxHz))].label>>
    ELSE Null

classifyBand(freq, bands) == classifyFrom(freq, bands, 1)

\* the left scan of computeProminence from index i down; gives leftValley
RECURSIVE scanLeftValley(_, _, _, _)
scanLeftValley(points, peakDb, i, valley) ==
    IF i < 0 THEN valley
    ELSE IF Gt(At(points, i).db, peakDb)
         THEN (IF Lt(At(points, i).db, valley) THEN At(points, i).db ELSE valley)
         ELSE scanLeftValley(points, peakDb, i - 1,
                  IF Lt(At(points, i).db, valley) THEN At(points, i).db ELSE valley)

\* the right scan from index i up; gives rightValley
RECURSIVE scanRightValley(_, _, _, _)
scanRightValley(points, peakDb, i, valley) ==
    IF i >= Len(points) THEN valley
    ELSE IF Gt(At(points, i).db, peakDb)
         THEN (IF Lt(At(points, i).db, valley) THEN At(points, i).db ELSE valley)
         ELSE scanRightValley(points, peakDb, i + 1,
                  IF Lt(At(points, i).db, valley) THEN At(points, i).db ELSE valley)

\* computeProminence(points, peakIdx)
computeProminence_lowerValley(points, peakIdx) ==
    Sub(At(points, peakIdx).db,
        Neg(MathMax(Neg(scanLeftValley(points, At(points, peakIdx).db, peakIdx - 1,
                                       At(points, peakIdx).db)),
                    Neg(scanRightValley(points, At(points, peakIdx).db, peakIdx + 1,
                                        At(points, peakIdx).db)))))

computeProminence(points, peakIdx) ==
    Sub(At(points, peakIdx).db,
        MathMax(scanLeftValley(points, At(points, peakIdx).db, peakIdx - 1,
                               At(points, peakIdx).db),
                scanRightValley(points, At(points, peakIdx).db, peakIdx + 1,
                                At(points, peakIdx).db)))

\* step 1 of detectPeaks: the indices of the local maxima, ascending
RECURSIVE candidatesFrom(_, _, _)
candidatesFrom(points, i, found) ==
    IF i >= Len(points) - 1 THEN found
    ELSE candidatesFrom(points, i + 1,
             IF Gt(At(points, i).db, At(points, i - 1).db)
                    /\ Gt(At(points, i).db, At(points, i + 1).db)
             THEN Append(found, i) ELSE found)

\* the DetectedPeak pushed for a candidate
detectedPeak(points, index, prom, bands) ==
    [freq |-> At(points, index).freq, db |-> At(points, index).db,
     prominence |-> prom, index |-> index,
     band |-> classifyBand(At(points, index).freq, bands)]

\* steps 2 and 3: the loop over the candidates from the k-th on
RECURSIVE peaksFrom(_, _, _, _, _, _)
peaksFrom(points, candidates, k, minProminence, bands, peaks) ==
    IF k > Len(candidates) THEN peaks
    ELSE peaksFrom(points, candidates, k + 1, minProminence, bands,
             IF Lt(computeProminence(points, candidates[k]), minProminence)
             THEN peaks
             ELSE Append(peaks, detectedPeak(points, candidates[k],
                                  computeProminence(points, candidates[k]), bands)))

\* one step of the insertion: pk goes behind every peak whose prominence is
\* not smaller, which keeps the sort stable
RECURSIVE insertByProminence(_, _)
insertByProminence(sorted, pk) ==
    IF Len(sorted) = 0 THEN <<pk>>
    ELSE IF Lt(sorted[Len(sorted)].prominence, pk.prominence)
         THEN Append(insertByProminence(SubSeq(sorted, 1, Len(sorted) - 1), pk),
                     sorted[Len(sorted)])
         ELSE Append(sorted, pk)

RECURSIVE sortPeaksFrom(_, _, _)
sortPeaksFrom(peaks, i, sorted) ==
    IF i > Len(peaks) THEN sorted
    ELSE sortPeaksFrom(peaks, i + 1, insertByProminence(sorted, peaks[i]))

\* peaks.sort((a, b) => b.prominence - a.prominence)
sortByProminence_unsorted(peaks) == peaks

sortByProminence(peaks) == sortPeaksFrom(peaks, 1, <<>>)

\* array.slice(0, end) for an integer end: a negative end counts from the
\* back
sliceTo(array, end) ==
    IF end < 0
    THEN SubSeq(array, 1, IF Len(array) + end < 0 THEN 0 ELSE Len(array) + end)
    ELSE SubSeq(array, 1, Min(end, Len(array)))

\* detectPeaks after the destructuring of the options
detectPeaksWith(points, minProminence, maxPeaks, bands) ==
    IF Len(points) < 3 THEN <<>>
    ELSE sliceTo(sortByProminence(
                     peaksFrom(points, candidatesFrom(points, 1, <<>>), 1,
                               minProminence, bands, <<>>)),
                 maxPeaks)

detectPeaks(points, options) ==
    detectPeaksWith(points,
                    optionOr(options.minProminence, Num(DefaultMinProminence)),
                    optionOr(options.maxPeaks, DefaultMaxPeaks),
                    optionOr(options.bands, DEFAULT_BANDS))

----------------------------------------------------------------------------
(* RT60 estimation (src/dsp/smoothing.ts, second half).                    *)
(*                                                                         *)
(* The decay curve is 10*log10 of a ratio of energies, so the energies of  *)
(* this part are kept as integer combinations of the powers of             *)
(* t = 10^(-1/10): t^k is k dB below 1, and 10*log10(t^k) is exactly -k.   *)
(* An energy is the set of its terms <<k, c>>, standing for the sum of the *)
(* c * t^k, with no c = 0.  A sample of an impulse response is held by its *)
(* sign and its square, which is all the code reads of it.                 *)

tPow(k) == {<<k, 1>>}

ZeroEnergy == {}

coefficient(f, k) ==
    IF \E term \in f : term[1] = k THEN (CHOOSE term \in f : term[1] = k)[2] ELSE 0

exponentsOf(f) == {term[1] : term \in f}

\* f + g
energyAdd(f, g) ==
    {<<k, coefficient(f, k) + coefficient(g, k)>> :
        k \in {j \in exponentsOf(f) \cup exponentsOf(g) :
                  coefficient(f, j) + coefficient(g, j) # 0}}

\* f - g
energySub(f, g) == energyAdd(f, {<<term[1], -term[2]>> : term \in g})

\* the sign of f when its terms have one sign, or when it is t^a - t^b:
\* the term of the lowest exponent is the largest
energySign(f) ==
    IF f = ZeroEnergy THEN 0
    ELSE LET lowest == CHOOSE k \in exponentsOf(f) : \A j \in exponentsOf(f) : k <= j
         IN  IF coefficient(f, lowest) > 0 THEN 1 ELSE -1

\* f / g for g a power of t
energyDiv(f, g) ==
    LET m == CHOOSE k \in exponentsOf(g) : TRUE
    IN  {<<term[1] - m, term[2]>> : term \in f}

\* Math.log10 of a power of t
log10OfPower(ratio) == Q(-(CHOOSE k \in exponentsOf(ratio) : TRUE), 0, 10)

\* the sample with the given sign whose square is the given energy
Sample(sign, square) == [sign |-> sign, square |-> square]

\* energy[i] = ir[i] * ir[i]
energyOf(ir) == [i \in 1..Len(ir) |-> ir[i].square]

\* edc[i] of the backward integration, i counted from 0
RECURSIVE edcAt(_, _)
edcAt(energy, i) ==
    IF i = Len(energy) - 1 THEN At(energy, i)
    ELSE energyAdd(edcAt(energy, i + 1), At(energy, i))

edcOf(energy) == [i \in 1..Len(energy) |-> edcAt(energy, i - 1)]

\* ratio > 0 ? 10 * Math.log10(ratio) : -120
dbOfRatio(ratio) ==
    IF energySign(ratio) > 0 THEN Mul(Num(10), log10OfPower(ratio)) ELSE Num(-120)

edcDbOf(edc, maxEnergy) ==
    [i \in 1..Len(edc) |-> dbOfRatio(energyDiv(edc[i], maxEnergy))]

\* x / y
jsDiv(x, y) ==
    IF x.k = "nan" \/ y.k = "nan" THEN NotANumber
    ELSE IF x.k = "inf"
         THEN (IF y.k = "inf" THEN NotANumber
               ELSE IF jsSign(x) * jsSign(y) < 0 THEN NegInfinity ELSE Infinity)
    ELSE IF y.k = "inf" THEN Fin(Zero)
    ELSE IF y.v = Zero
         THEN (IF x.v = Zero THEN NotANumber
               ELSE IF jsSign(x) < 0 THEN NegInfinity ELSE Infinity)
    ELSE Fin(Div(x.v, y.v))

\* x < 1e-12 for x >= 0: a finite number of the model is a ratio of 32-bit
\* integers, so it is below 1e-12 only when it is 0
belowEpsilon(x) == x.k = "fin" /\ x.v = Zero

\* Math.abs(x)
jsAbs(x) == IF x.k = "nan" THEN x ELSE [k |-> x.k, v |-> MathAbs(x.v)]

\* the noise floor: the mean of edcDb over its last tenth
RECURSIVE sumDbFrom(_, _)
sumDbFrom(edcDb, i) ==
    IF i >= Len(edcDb) THEN Zero ELSE Add(At(edcDb, i), sumDbFrom(edcDb, i + 1))

tailStartOf(length) == (9 * length) \div 10

noiseFloorDbOf(edcDb) ==
    IF Len(edcDb) - tailStartOf(Len(edcDb)) > 0
    THEN Div(sumDbFrom(edcDb, tailStartOf(Len(edcDb))),
             Num(Len(edcDb) - tailStartOf(Len(edcDb))))
    ELSE Num(-60)

\* the threshold search of fitDecayRange from index i on: <<startIdx, endIdx>>
RECURSIVE crossings(_, _, _, _, _)
crossings(edcDb, startDb, endDb, i, startIdx) ==
    IF i >= Len(edcDb) THEN <<startIdx, -1>>
    ELSE IF (startIdx >= 0 \/ Le(At(edcDb, i), startDb)) /\ Le(At(edcDb, i), endDb)
         THEN <<IF startIdx < 0 THEN i ELSE startIdx, i>>
         ELSE crossings(edcDb, startDb, endDb, i + 1,
                        IF startIdx < 0 /\ Le(At(edcDb, i), startDb) THEN i
                        ELSE startIdx)

\* the sums of the regression over the indices lo..hi
RECURSIVE sumX(_, _, _)
sumX(sampleRate, lo, hi) ==
    IF lo > hi THEN Fin(Zero)
    ELSE jsAdd(sumX(sampleRate, lo, hi - 1), jsDiv(Fin(Num(hi)), sampleRate))

RECURSIVE sumY(_, _, _)
sumY(edcDb, lo, hi) ==
    IF lo > hi THEN Fin(Zero)
    ELSE jsAdd(sumY(edcDb, lo, hi - 1), Fin(At(edcDb, hi)))

RECURSIVE sumXY(_, _, _, _)
sumXY(edcDb, sampleRate, lo, hi) ==
    IF lo > hi THEN Fin(Zero)
    ELSE jsAdd(sumXY(edcDb, sampleRate, lo, hi - 1),
               jsMul(jsDiv(Fin(Num(hi)), sampleRate), Fin(At(edcDb, hi))))

RECURSIVE sumX2(_, _, _)
sumX2(sampleRate, lo, hi) ==
    IF lo > hi THEN Fin(Zero)
    ELSE jsAdd(sumX2(sampleRate, lo, hi - 1),
               jsMul(jsDiv(Fin(Num(hi)), sampleRate),
                     jsDiv(Fin(Num(hi)), sampleRate)))

denomOf(n, sx, sx2) == jsSub(jsMul(Fin(Num(n)), sx2), jsMul(sx, sx))

slopeOf(n, sx, sy, sxy, denom) ==
    jsDiv(jsSub(jsMul(Fin(Num(n)), sxy), jsMul(sx, sy)), denom)

DecayFit(decayRateDbPerSec) == [decayRateDbPerSec |-> decayRateDbPerSec]

\* fitDecayRange once the sums are known
fitOfSums(n, sx, sy, sxy, sx2) ==
    IF belowEpsilon(jsAbs(denomOf(n, sx, sx2))) THEN Null
    ELSE IF jsLe(jsNeg(slopeOf(n, sx, sy, sxy, denomOf(n, sx, sx2))), Fin(Zero))
         THEN Null
    ELSE DecayFit(jsNeg(slopeOf(n, sx, sy, sxy, denomOf(n, sx, sx2))))

\* the fit without the test for 3 samples in the window
fitBetween_anyLength(edcDb, sampleRate, startIdx, endIdx) ==
    IF startIdx < 0 \/ endIdx < 0 \/ endIdx <= startIdx THEN Null
    ELSE fitOfSums(endIdx - startIdx + 1,
                   sumX(sampleRate, startIdx, endIdx),
                   sumY(edcDb, startIdx, endIdx),
                   sumXY(edcDb, sampleRate, startIdx, endIdx),
                   sumX2(sampleRate, startIdx, endIdx))

\* fitDecayRange once the two indices are known
fitBetween(edcDb, sampleRate, startIdx, endIdx) ==
    IF startIdx < 0 \/ endIdx < 0 \/ endIdx <= startIdx THEN Null
    ELSE IF endIdx - startIdx + 1 < 3 THEN Null
    ELSE fitOfSums(endIdx - startIdx + 1,
                   sumX(sampleRate, startIdx, endIdx),
                   sumY(edcDb, startIdx, endIdx),
                   sumXY(edcDb, sampleRate, startIdx, endIdx),
                   sumX2(sampleRate, startIdx, endIdx))

fitDecayRange(edcDb, sampleRate, startDb, endDb) ==
    fitBetween(edcDb, sampleRate,
               crossings(edcDb, startDb, endDb, 0, -1)[1],
               crossings(edcDb, startDb, endDb, 0, -1)[2])

RT60Result(rt60, t20, t30, edcDb, noiseFloorDb) ==
    [rt60 |-> rt60, t20 |-> t20, t30 |-> t30, edcDb |-> edcDb,
     noiseFloorDb |-> noiseFloorDb]

\* estimateRT60 from the two fits on, without the test of line 177
resultOfFits_anyTime(edcDb, t20Fit, t30Fit) ==
    IF t20Fit = Null THEN Null
    ELSE RT60Result(jsDiv(Fin(Num(60)), t20Fit.decayRateDbPerSec),
                    jsDiv(Fin(Num(60)), t20Fit.decayRateDbPerSec),
                    IF t30Fit = Null THEN Null
                    ELSE jsDiv(Fin(Num(60)), t30Fit.decayRateDbPerSec),
                    edcDb, noiseFloorDbOf(edcDb))

\* estimateRT60 from the two fits on
resultOfFits(edcDb, t20Fit, t30Fit) ==
    IF t20Fit = Null THEN Null
    ELSE IF \/ jsLe(jsDiv(Fin(Num(60)), t20Fit.decayRateDbPerSec), Fin(Zero))
            \/ jsGt(jsDiv(Fin(Num(60)), t20Fit.decayRateDbPerSec), Fin(Num(30)))
         THEN Null
    ELSE RT60Result(jsDiv(Fin(Num(60)), t20Fit.decayRateDbPerSec),
                    jsDiv(Fin(Num(60)), t20Fit.decayRateDbPerSec),
                    IF t30Fit = Null THEN Null
                    ELSE jsDiv(Fin(Num(60)), t30Fit.decayRateDbPerSec),
                    edcDb, noiseFloorDbOf(edcDb))

\* estimateRT60 from the decay curve on
resultOfCurve(edcDb, sampleRate) ==
    resultOfFits(edcDb,
                 fitDecayRange(edcDb, sampleRate, Num(-5), Num(-25)),
                 fitDecayRange(edcDb, sampleRate, Num(-5), Num(-35)))

estimateRT60(ir, sampleRate) ==
    IF Len(ir) < 2 THEN Null
    ELSE IF energySign(edcOf(energyOf(ir))[1]) <= 0 THEN Null
    ELSE resultOfCurve(edcDbOf(edcOf(energyOf(ir)), edcOf(energyOf(ir))[1]),
                       sampleRate)

\* computeEDC: with no positive energy every ratio is 0
computeEDC(ir) ==
    IF Len(ir) = 0 THEN <<>>
    ELSE IF energySign(edcOf(energyOf(ir))[1]) > 0
         THEN edcDbOf(edcOf(energyOf(ir)), edcOf(energyOf(ir))[1])
         ELSE [i \in 1..Len(ir) |-> Num(-120)]

----------------------------------------------------------------------------
(* Frequency response (frequencyResponse.ts).                              *)
(*                                                                         *)
(* The frequency axis is computed in JavaScript numbers; its points are    *)
(* powers of ten for the inputs analysed, so that Math.log10 and Math.pow  *)
(* are exact.  A finite level 20*log10(mag) is held as the magnitude it is *)
(* the level of, Decibels(mag).                                            *)

\* ToNumber(x): undefined is NaN
toNumber(x) == IF x.k = "undefined" THEN NotANumber ELSE x

\* Math.max(x, y) and Math.min(x, y)
jsMax(x, y) ==
    IF x.k = "nan" \/ y.k = "nan" THEN NotANumber ELSE IF jsLt(x, y) THEN y ELSE x

jsMin(x, y) ==
    IF x.k = "nan" \/ y.k = "nan" THEN NotANumber ELSE IF jsLt(y, x) THEN y ELSE x

\* Math.floor(x) and Math.ceil(x)
MathFloor(x) == IF x.k = "fin" THEN Fin(Num(x.v[1] \div x.v[3])) ELSE x

MathCeil(x) == IF x.k = "fin" THEN Fin(Num(-((-x.v[1]) \div x.v[3]))) ELSE x

\* Math.log10(x) for x a power of ten 10^k, k >= 0
jsLog10(x) == IF x.k = "fin" THEN Fin(MathLog10(x.v)) ELSE x

\* Math.pow(10, x) for x an integer k >= 0
MathPow10(x) == IF x.k = "fin" THEN Fin(Num(Pow10(x.v[1]))) ELSE x

\* the integer r with r * r <= n < (r + 1) * (r + 1)
IntSqrt(n) == CHOOSE r \in 0..n : r * r <= n /\ n < (r + 1) * (r + 1)

\* Math.sqrt(u) for u = n^2 or u = 2 * n^2, the values re^2 + im^2 takes
\* on the spectra analysed
MathSqrt(u) ==
    CASE IsNaN(u) -> NaN
      [] ~IsNaN(u) /\ u[2] = 0 /\ u[3] = 1 /\ IntSqrt(u[1]) * IntSqrt(u[1]) = u[1] ->
            Num(IntSqrt(u[1]))
      [] ~IsNaN(u) /\ u[2] = 0 /\ u[3] = 1 /\ u[1] % 2 = 0
            /\ IntSqrt(u[1] \div 2) * IntSqrt(u[1] \div 2) * 2 = u[1]
            /\ IntSqrt(u[1]) * IntSqrt(u[1]) # u[1] ->
            Q(0, IntSqrt(u[1] \div 2), 1)

Decibels(mag) == [k |-> "db", v |-> mag]

\* linearToDb(value)
linearToDb(value) ==
    IF jsLe(value, Fin(Zero)) THEN NegInfinity
    ELSE IF value.k = "fin" THEN Decibels(value.v)
    ELSE value

\* Number.isFinite(db)
isFiniteNumber(db) == db.k \in {"fin", "db"}

\* new Float64Array(length).length for a length >= 0: the integer part
arrayLengthOf(length) == length[1] \div length[3]

\* magnitudes[k] = Math.sqrt(re[k] * re[k] + im[k] * im[k]) for k <= halfN
magnitudesOf(spec, halfN) ==
    [k \in 1..arrayLengthOf(Add(halfN, One)) |->
        IF Le(Num(k - 1), halfN)
        THEN MathSqrt(Add(Mul(spec.re[k], spec.re[k]), Mul(spec.im[k], spec.im[k])))
        ELSE Zero]

\* array[index]: undefined unless index is an integer within the array
elementAt(array, index) ==
    IF index.k = "fin" /\ index.v[2] = 0 /\ index.v[3] = 1
          /\ index.v[1] >= 0 /\ index.v[1] < Len(array)
    THEN Fin(array[index.v[1] + 1])
    ELSE Undefined

\* the indices of magnitudes read for a point between binLow and binHigh
indicesRead(length, binLow, binHigh) ==
    IF jsGe(binHigh, Fin(Num(length))) THEN {Fin(Num(length - 1))}
    ELSE IF (binLow.k # "nan" /\ binLow = binHigh) \/ jsLt(binLow, Fin(Zero))
         THEN {jsMax(Fin(Zero), jsMin(binHigh, Fin(Num(length - 1))))}
    ELSE {binLow, binHigh}

\* mag of a point with the given exactBin
magAt(magnitudes, exactBin, binLow, binHigh) ==
    IF jsGe(binHigh, Fin(Num(Len(magnitudes))))
    THEN elementAt(magnitudes, Fin(Num(Len(magnitudes) - 1)))
    ELSE IF (binLow.k # "nan" /\ binLow = binHigh) \/ jsLt(binLow, Fin(Zero))
         THEN elementAt(magnitudes,
                        jsMax(Fin(Zero), jsMin(binHigh, Fin(Num(Len(magnitudes) - 1)))))
    ELSE jsAdd(jsMul(toNumber(elementAt(magnitudes, binLow)),
                     jsSub(Fin(One), jsSub(exactBin, binLow))),
               jsMul(toNumber(elementAt(magnitudes, binHigh)),
                     jsSub(exactBin, binLow)))

\* db: Number.isFinite(db) ? db : -120
clampedDb(db) == IF isFiniteNumber(db) THEN db ELSE Fin(Num(-120))

FrequencyPoint(freq, db) == [freq |-> freq, db |-> db]

\* the i-th frequency of the axis, i counted from 0
freqAt(logFMin, logFMax, i, numPoints) ==
    MathPow10(jsAdd(logFMin,
                    jsDiv(jsMul(jsSub(logFMax, logFMin), Fin(Num(i))),
                          Fin(Num(numPoints - 1)))))

pointAt(magnitudes, freq, exactBin) ==
    FrequencyPoint(freq,
                   clampedDb(linearToDb(magAt(magnitudes, exactBin,
                                              MathFloor(exactBin), MathCeil(exactBin)))))

\* the points of the response once the magnitudes are known
pointsOf(magnitudes, logFMin, logFMax, binWidth, numPoints) ==
    [i \in 1..numPoints |->
        pointAt(magnitudes, freqAt(logFMin, logFMax, i - 1, numPoints),
                jsDiv(freqAt(logFMin, logFMax, i - 1, numPoints), binWidth))]

\* the indices of magnitudes read while the points are computed
readsOf(length, logFMin, logFMax, binWidth, numPoints) ==
    UNION {indicesRead(length,
                       MathFloor(jsDiv(freqAt(logFMin, logFMax, i, numPoints), binWidth)),
                       MathCeil(jsDiv(freqAt(logFMin, logFMax, i, numPoints), binWidth))) :
              i \in 0..(numPoints - 1)}

logFMinOf(fMin) == jsLog10(jsMax(fMin, Fin(One)))

logFMaxOf(fMax, sampleRate) == jsLog10(jsMin(fMax, jsDiv(sampleRate, Fin(Num(2)))))

\* computeMagnitudeResponse for a transform of length N
responseSized(signal, sampleRate, fMin, fMax, numPoints, N) ==
    pointsOf(magnitudesOf(spectrum(signal, N), Q(N, 0, 2)),
             logFMinOf(fMin), logFMaxOf(fMax, sampleRate),
             jsDiv(sampleRate, Fin(Num(N))), numPoints)

computeMagnitudeResponse(signal, sampleRate, fMin, fMax, numPoints) ==
    IF Len(signal) = 0 \/ numPoints <= 0 THEN <<>>
    ELSE responseSized(signal, sampleRate, fMin, fMax, numPoints,
                       nextPowerOfTwo(Len(signal)))

\* the indices of magnitudes that computeMagnitudeResponse reads
magnitudeReads(signal, sampleRate, fMin, fMax, numPoints) ==
    IF Len(signal) = 0 \/ numPoints <= 0 THEN {}
    ELSE readsOf(arrayLengthOf(Add(Q(nextPowerOfTwo(Len(signal)), 0, 2), One)),
                 logFMinOf(fMin), logFMaxOf(fMax, sampleRate),
                 jsDiv(sampleRate, Fin(Num(nextPowerOfTwo(Len(signal))))), numPoints)

----------------------------------------------------------------------------
(* Waterfall (waterfall.ts).                                               *)
(*                                                                         *)
(* The options are given in full.  The frequency axis runs over powers of  *)
(* ten.  A magnitude sqrt(re^2 + im^2) is held by its square, and a finite *)
(* level 20*log10(mag / fftSize) by the ratio mag^2 / fftSize^2 it is the  *)
(* level of, PowerDb(ratio).                                               *)

PowerDb(ratio) == [k |-> "powerdb", v |-> ratio]

\* totalSamples = Math.min(Math.round(windowSec * sampleRate), ir.length)
totalSamplesOf(ir, sampleRate, windowSec) ==
    jsMin(MathRound(jsMul(windowSec, sampleRate)), Fin(Num(Len(ir)))).v[1]

\* frequencies[i]
frequencyOf(logFMin, logFMax, i, numFreqPoints) ==
    MathPow10(jsAdd(logFMin,
                    jsMul(jsDiv(Fin(Num(i)), Fin(Num(numFreqPoints - 1))),
                          jsSub(logFMax, logFMin))))

\* freqBins[i] for every i
freqBinsOf(sampleRate, fMin, fMax, numFreqPoints, fftSize) ==
    [i \in 1..numFreqPoints |->
        jsMul(jsDiv(frequencyOf(jsLog10(fMin), jsLog10(fMax), i - 1, numFreqPoints),
                    sampleRate),
              Fin(Num(fftSize)))]

\* a slice loop that advances the offset every second slice only
startSampleOf_everySecond(s, numSlices, totalSamples) ==
    MathRound(Fin(Q((s \div 2) * totalSamples, 0, numSlices))).v[1]

\* startSample = Math.round((s / numSlices) * totalSamples)
startSampleOf(s, numSlices, totalSamples) ==
    MathRound(Fin(Q(s * totalSamples, 0, numSlices))).v[1]

\* 0.5 * (1 - Math.cos((Math.PI * k) / n)) for the angles whose cosine is
\* 1/2 or sqrt(2)/2
hannWeight(k, n) ==
    CASE 3 * k = n -> Q(1, 0, 4)
      [] 4 * k = n -> Q(2, -1, 4)

\* the factor of sample i of a segment: 1 over the first half, the falling
\* half of a Hann window after it, 0 at the last sample
halfHann(i, segLen) ==
    IF 2 * i < segLen THEN One
    ELSE IF i < segLen - 1 THEN hannWeight(segLen - 1 - i, segLen - 1)
    ELSE Zero

segmentOf(ir, startSample, segLen) ==
    [i \in 1..segLen |-> fround(Mul(ir[startSample + i], halfHann(i - 1, segLen)))]

\* re[index] * re[index] + im[index] * im[index], NaN outside the buffers
squaredMagnitudeAt(spec, index) ==
    IF elementAt(spec.re, index).k = "undefined" THEN NotANumber
    ELSE Fin(Add(Mul(elementAt(spec.re, index).v, elementAt(spec.re, index).v),
                 Mul(elementAt(spec.im, index).v, elementAt(spec.im, index).v)))

\* the square of mag = magLow + frac * (magHigh - magLow), for a bin that
\* is whole or has binHigh = binLow, where mag is magLow
interpolatedSquare(spec, bin, binLow, binHigh) ==
    CASE squaredMagnitudeAt(spec, binLow).k = "nan"
            \/ squaredMagnitudeAt(spec, binHigh).k = "nan" -> NotANumber
      [] squaredMagnitudeAt(spec, binLow).k = "fin"
            /\ squaredMagnitudeAt(spec, binHigh).k = "fin"
            /\ (bin = binLow \/ binHigh = binLow) -> squaredMagnitudeAt(spec, binLow)

\* db = mag > 0 ? 20 * Math.log10(mag / fftSize) : -120
dbOfSquare(square, fftSize) ==
    IF square.k = "fin" /\ Gt(square.v, Zero)
    THEN PowerDb(Div(square.v, Num(fftSize * fftSize)))
    ELSE Fin(Num(-120))

magnitudeDbOf(spec, freqBins, fftSize) ==
    [i \in 1..Len(freqBins) |->
        fround(dbOfSquare(interpolatedSquare(spec, freqBins[i], MathFloor(freqBins[i]),
                                             jsMin(jsAdd(MathFloor(freqBins[i]), Fin(One)),
                                                   Fin(Q(fftSize - 2, 0, 2)))),
                          fftSize))]

WaterfallSlice(timeSec, magnitudeDb) == [timeSec |-> timeSec, magnitudeDb |-> magnitudeDb]

\* one pass of the slice loop once startSample and segLen are known
sliceOf(ir, sampleRate, freqBins, fftSize, startSample, segLen) ==
    WaterfallSlice(jsDiv(Fin(Num(startSample)), sampleRate),
                   magnitudeDbOf(spectrum(segmentOf(ir, startSample, segLen), fftSize),
                                 freqBins, fftSize))

\* the slice loop from slice s on: the slices pushed, or the RangeError of
\* new Float32Array(segLen) for a negative segLen
RECURSIVE slicesFrom(_, _, _, _, _, _, _)
slicesFrom(ir, sampleRate, numSlices, totalSamples, freqBins, s, slices) ==
    IF s >= numSlices THEN [kind |-> "return", slices |-> slices]
    ELSE IF Len(ir) - startSampleOf(s, numSlices, totalSamples) <= 0
         THEN [kind |-> "return", slices |-> slices]
    ELSE IF Min(totalSamples - startSampleOf(s, numSlices, totalSamples),
                Len(ir) - startSampleOf(s, numSlices, totalSamples)) < 0
         THEN RangeError("Invalid typed array length")
    ELSE slicesFrom(ir, sampleRate, numSlices, totalSamples, freqBins, s + 1,
                    Append(slices,
                           sliceOf(ir, sampleRate, freqBins, nextPowerOfTwo(totalSamples),
                                   startSampleOf(s, numSlices, totalSamples),
                                   Min(totalSamples - startSampleOf(s, numSlices, totalSamples),
                                       Len(ir) - startSampleOf(s, numSlices, totalSamples)))))

\* db > maxDb, for levels whose ratio is 1/4096 or more (above -120 dB)
dbGreater(db, maxDb) ==
    CASE maxDb.k = "inf" -> TRUE
      [] db.k = "fin" /\ maxDb.k \in {"fin", "powerdb"} -> FALSE
      [] db.k = "powerdb" /\ maxDb.k = "fin"
            /\ Ge(Mul(db.v, Num(4096)), One) -> TRUE
      [] db.k = "powerdb" /\ maxDb.k = "powerdb" -> Gt(db.v, maxDb.v)

\* maxDb after the loop: -Infinity raised to every db stored
maxDbOf(slices) ==
    IF \A k \in 1..Len(slices) : Len(slices[k].magnitudeDb) = 0 THEN NegInfinity
    ELSE CHOOSE db \in {slices[k].magnitudeDb[i] :
                            k \in 1..Len(slices), i \in 1..Len(slices[1].magnitudeDb)} :
             \A k \in 1..Len(slices) : \A i \in 1..Len(slices[k].magnitudeDb) :
                 slices[k].magnitudeDb[i] = db \/ dbGreater(db, slices[k].magnitudeDb[i])

WaterfallData(slices, frequencies, maxDb) ==
    [kind |-> "return", slices |-> slices, frequencies |-> frequencies, maxDb |-> maxDb]

waterfallOf(looped, frequencies) ==
    IF looped.kind = "throw" THEN looped
    ELSE WaterfallData(looped.slices, frequencies, maxDbOf(looped.slices))

computeWaterfall(ir, sampleRate, options) ==
    waterfallOf(slicesFrom(ir, sampleRate, options.numSlices,
                           totalSamplesOf(ir, sampleRate, options.windowSec),
                           freqBinsOf(sampleRate, options.fMin, options.fMax,
                                      options.numFreqPoints,
                                      nextPowerOfTwo(totalSamplesOf(ir, sampleRate,
                                                                    options.windowSec))),
                           0, <<>>),
                [i \in 1..options.numFreqPoints |->
                    fround(frequencyOf(jsLog10(options.fMin), jsLog10(options.fMax),
                                       i - 1, options.numFreqPoints))])

----------------------------------------------------------------------------
(* windowIR (frequencyResponse.ts).  The fades analysed are of up to four  *)
(* samples, whose cosines lie in the field of the arithmetic.              *)

\* Math.cos(Math.PI * k / n)
cosPi(k, n) ==
    CASE k = 0 -> One
      [] 4 * k = n -> HalfSqrt2
      [] 3 * k = n -> Q(1, 0, 2)
      [] 2 * k = n -> Zero
      [] 3 * k = 2 * n -> Q(-1, 0, 2)
      [] 4 * k = 3 * n -> Neg(HalfSqrt2)

\* maxSamples; maxDurationSec is <<>> when left out
maxSamplesOf(ir, sampleRate, maxDurationSec) ==
    IF maxDurationSec # <<>>
    THEN jsMin(MathRound(jsMul(maxDurationSec[1], sampleRate)), Fin(Num(Len(ir)))).v[1]
    ELSE Len(ir)

\* fadeLen = Math.round(maxSamples * fadeOutRatio)
fadeLenOf(maxSamples, fadeOutRatio) ==
    MathRound(jsMul(Fin(Num(maxSamples)), fadeOutRatio)).v[1]

\* windowed[i] after the copy and the fade
windowedAt(ir, i, fadeStart, fadeLen) ==
    IF fadeLen > 0 /\ i >= fadeStart
    THEN fround(Mul(At(ir, i),
                    Mul(Q(1, 0, 2), Add(One, cosPi(i - fadeStart, fadeLen)))))
    ELSE At(ir, i)

windowedOf(ir, maxSamples, fadeLen) ==
    [i \in 1..maxSamples |-> windowedAt(ir, i - 1, maxSamples - fadeLen, fadeLen)]

windowIR(ir, sampleRate, maxDurationSec, fadeOutRatio) ==
    IF maxSamplesOf(ir, sampleRate, maxDurationSec) < 0
    THEN RangeError("Invalid typed array length")
    ELSE [kind |-> "return",
          value |-> windowedOf(ir, maxSamplesOf(ir, sampleRate, maxDurationSec),
                               fadeLenOf(maxSamplesOf(ir, sampleRate, maxDurationSec),
                                         fadeOutRatio))]

----------------------------------------------------------------------------
(* The stages on the heap.  A stage is given references; every array it    *)
(* creates is appended to the heap, every store into an existing array     *)
(* replaces the array at its reference, and the references the in-place    *)
(* transform has run on are collected.                                     *)

Memory(h, transformed) == [heap |-> h, transformed |-> transformed]

\* what a stage leaves: the memory after it and the value it returns
Did(m, value) == [heap |-> m.heap, transformed |-> m.transformed, value |-> value]

\* new Float64Array(...), [] and the stores that fill the new array
allocated(m, array) == Memory(Append(m.heap, array), m.transformed)

\* the stores of a loop or a sort into the array at reference r
stored(m, r, array) == Memory([m.heap EXCEPT ![r] = array], m.transformed)

\* fft(re, im) on the arrays at the references re and im
fftOn(m, reRef, imRef) ==
    Memory([m.heap EXCEPT ![reRef] = fft(m.heap[reRef], m.heap[imRef]).re,
                          ![imRef] = fft(m.heap[reRef], m.heap[imRef]).im],
           m.transformed \cup {reRef, imRef})

\* ifft(re, im) on the arrays at the references re and im
ifftOn(m, reRef, imRef) ==
    Memory([m.heap EXCEPT ![reRef] = ifft(m.heap[reRef], m.heap[imRef]).re,
                          ![imRef] = ifft(m.heap[reRef], m.heap[imRef]).im],
           m.transformed \cup {reRef, imRef})

\* realToComplex(signal, N): re and im are the next two references
realToComplexOn(m, signal, N) ==
    allocated(allocated(m, realToComplex(m.heap[signal], N).re), Zeros(N))

\* cRe and cIm of convolve, from aRe, aIm, bRe, bIm at n + 1 .. n + 4
productOn(m, n, N) ==
    allocated(allocated(m, [i \in 1..N |-> cmulRe(m.heap[n + 1][i], m.heap[n + 2][i],
                                                  m.heap[n + 3][i], m.heap[n + 4][i])]),
              [i \in 1..N |-> cmulIm(m.heap[n + 1][i], m.heap[n + 2][i],
                                     m.heap[n + 3][i], m.heap[n + 4][i])])

\* result of convolve, copied from cRe
truncatedOn(m, cRe, outLen) == allocated(m, truncate([re |-> m.heap[cRe]], outLen))

\* convolve past its first return, n the size of the heap at the call
convolveSizedOn(m, a, b, n, outLen, N) ==
    truncatedOn(ifftOn(productOn(fftOn(fftOn(realToComplexOn(realToComplexOn(m, a, N),
                                                             b, N),
                                             n + 1, n + 2),
                                       n + 3, n + 4),
                                 n, N),
                       n + 5, n + 6),
                n + 5, outLen)

\* the memory a stage leaves, returning the array it allocated last
returningLast(m) == Did(m, Len(m.heap))

convolveOn(m, a, b) ==
    IF Len(m.heap[a]) = 0 \/ Len(m.heap[b]) = 0 THEN returningLast(allocated(m, <<>>))
    ELSE returningLast(convolveSizedOn(m, a, b, Len(m.heap),
                                       Len(m.heap[a]) + Len(m.heap[b]) - 1,
                                       nextPowerOfTwo(Len(m.heap[a]) + Len(m.heap[b]) - 1)))

\* steps 2 to 4 of extractImpulseResponse once raw is on the heap
extractedOn(c, maxLengthSamples) ==
    Did(allocated(c, extractFrom(c.heap[c.value], maxLengthSamples).ir),
        [extractFrom(c.heap[c.value], maxLengthSamples) EXCEPT !.ir = Len(c.heap) + 1])

extractImpulseResponseOn(m, recording, inverseFilter, maxLengthSamples) ==
    extractedOn(convolveOn(m, recording, inverseFilter), maxLengthSamples)

\* a windowIR that fades the impulse response it is given
windowIROn_inPlace(m, ir, sampleRate, maxDurationSec, fadeOutRatio) ==
    IF windowIR(m.heap[ir], sampleRate, maxDurationSec, fadeOutRatio).kind = "throw"
    THEN Did(m, windowIR(m.heap[ir], sampleRate, maxDurationSec, fadeOutRatio))
    ELSE Did(stored(m, ir, windowIR(m.heap[ir], sampleRate, maxDurationSec,
                                    fadeOutRatio).value),
             ir)

windowIROn(m, ir, sampleRate, maxDurationSec, fadeOutRatio) ==
    IF windowIR(m.heap[ir], sampleRate, maxDurationSec, fadeOutRatio).kind = "throw"
    THEN Did(m, windowIR(m.heap[ir], sampleRate, maxDurationSec, fadeOutRatio))
    ELSE returningLast(allocated(m, windowIR(m.heap[ir], sampleRate, maxDurationSec,
                                             fadeOutRatio).value))

\* magnitudes and the points, from re and im at n + 1 and n + 2
pointsOn(m, n, sampleRate, fMin, fMax, numPoints, N) ==
    allocated(allocated(m, magnitudesOf([re |-> m.heap[n + 1], im |-> m.heap[n + 2]],
                                        Q(N, 0, 2))),
              pointsOf(magnitudesOf([re |-> m.heap[n + 1], im |-> m.heap[n + 2]],
                                    Q(N, 0, 2)),
                       logFMinOf(fMin), logFMaxOf(fMax, sampleRate),
                       jsDiv(sampleRate, Fin(Num(N))), numPoints))

computeMagnitudeResponseOn(m, signal, sampleRate, fMin, fMax, numPoints) ==
    IF Len(m.heap[signal]) = 0 \/ numPoints <= 0 THEN returningLast(allocated(m, <<>>))
    ELSE returningLast(
             pointsOn(fftOn(realToComplexOn(m, signal,
                                            nextPowerOfTwo(Len(m.heap[signal]))),
                            Len(m.heap) + 1, Len(m.heap) + 2),
                      Len(m.heap), sampleRate, fMin, fMax, numPoints,
                      nextPowerOfTwo(Len(m.heap[signal]))))

\* the stages that are modelled on the heap from the start
applyCalibrationOn(m, points, calibration) ==
    Did(Memory(applyCalibration(m.heap, points, calibration).heap, m.transformed),
        applyCalibration(m.heap, points, calibration).value)

smoothFrequencyResponseOn(m, points, fractionOfOctave) ==
    Did(Memory(smoothFrequencyResponse(m.heap, points, fractionOfOctave).heap,
               m.transformed),
        smoothFrequencyResponse(m.heap, points, fractionOfOctave).value)

\* peaks, from the candidates allocated last
peaksOn(m, points, minProminence, bands) ==
    allocated(m, peaksFrom(m.heap[points], m.heap[Len(m.heap)], 1, minProminence,
                           bands, <<>>))

\* peaks.sort(...) on the array allocated last
sortedOn(m) == stored(m, Len(m.heap), sortByProminence(m.heap[Len(m.heap)]))

\* peaks.slice(0, maxPeaks) of the array allocated last
slicedOn(m, maxPeaks) == allocated(m, sliceTo(m.heap[Len(m.heap)], maxPeaks))

\* detectPeaks(points, options); options.bands, when given, is a reference
detectPeaksOn(m, points, options) ==
    IF Len(m.heap[points]) < 3 THEN returningLast(allocated(m, <<>>))
    ELSE returningLast(
             slicedOn(sortedOn(peaksOn(allocated(m, candidatesFrom(m.heap[points], 1, <<>>)),
                                       points,
                                       optionOr(options.minProminence,
                                                Num(DefaultMinProminence)),
                                       IF options.bands = <<>> THEN DEFAULT_BANDS
                                       ELSE m.heap[options.bands[1]])),
                      optionOr(options.maxPeaks, DefaultMaxPeaks)))

\* the result of estimateRT60 with edcDb allocated last
rt60ResultOn(m, sampleRate) ==
    Did(m, IF resultOfCurve(m.heap[Len(m.heap)], sampleRate) = Null THEN Null
           ELSE [resultOfCurve(m.heap[Len(m.heap)], sampleRate)
                    EXCEPT !.edcDb = Len(m.heap)])

\* estimateRT60 from maxEnergy on, with edc allocated last
rt60CurveOn(m, sampleRate) ==
    IF energySign(m.heap[Len(m.heap)][1]) <= 0 THEN Did(m, Null)
    ELSE rt60ResultOn(allocated(m, edcDbOf(m.heap[Len(m.heap)], m.heap[Len(m.heap)][1])),
                      sampleRate)

estimateRT60On(m, ir, sampleRate) ==
    IF Len(m.heap[ir]) < 2 THEN Did(m, Null)
    ELSE rt60CurveOn(allocated(allocated(m, energyOf(m.heap[ir])),
                               edcOf(energyOf(m.heap[ir]))),
                     sampleRate)

computeEDCOn(m, ir) ==
    returningLast(allocated(allocated(allocated(m, energyOf(m.heap[ir])),
                                      edcOf(energyOf(m.heap[ir]))),
                            computeEDC(m.heap[ir])))

\* magnitudeDb of a slice, from re and im allocated last and freqBins
magnitudeDbOn(m, freqBins, fftSize) ==
    allocated(m, magnitudeDbOf([re |-> m.heap[Len(m.heap) - 1], im |-> m.heap[Len(m.heap)]],
                               m.heap[freqBins], fftSize))

\* slices.push({ timeSec, magnitudeDb }) with magnitudeDb allocated last
pushedOn(m, slices, timeSec) ==
    stored(m, slices, Append(m.heap[slices], WaterfallSlice(timeSec, Len(m.heap))))

\* one pass of the slice loop: segment, re and im are the next three
\* references
sliceOn(m, ir, sampleRate, freqBins, slices, fftSize, startSample, segLen) ==
    pushedOn(magnitudeDbOn(fftOn(realToComplexOn(allocated(m, segmentOf(m.heap[ir],
                                                                        startSample,
                                                                        segLen)),
                                                 Len(m.heap) + 1, fftSize),
                                 Len(m.heap) + 2, Len(m.heap) + 3),
                           freqBins, fftSize),
             slices, jsDiv(Fin(Num(startSample)), sampleRate))

\* the slice loop from slice s on; frequencies, freqBins and slices are at
\* n + 1, n + 2 and n + 3
RECURSIVE slicesOn(_, _, _, _, _, _, _)
slicesOn(m, ir, sampleRate, numSlices, totalSamples, n, s) ==
    IF s >= numSlices THEN Did(m, "return")
    ELSE IF Len(m.heap[ir]) - startSampleOf(s, numSlices, totalSamples) <= 0
         THEN Did(m, "return")
    ELSE IF Min(totalSamples - startSampleOf(s, numSlices, totalSamples),
                Len(m.heap[ir]) - startSampleOf(s, numSlices, totalSamples)) < 0
         THEN Did(m, "throw")
    ELSE slicesOn(sliceOn(m, ir, sampleRate, n + 2, n + 3, nextPowerOfTwo(totalSamples),
                          startSampleOf(s, numSlices, totalSamples),
                          Min(totalSamples - startSampleOf(s, numSlices, totalSamples),
                              Len(m.heap[ir]) - startSampleOf(s, numSlices, totalSamples))),
                  ir, sampleRate, numSlices, totalSamples, n, s + 1)

\* the slices with their magnitudeDb read from the heap
slicesRead(h, slices) ==
    [k \in 1..Len(h[slices]) |->
        WaterfallSlice(h[slices][k].timeSec, h[h[slices][k].magnitudeDb])]

\* the return of computeWaterfall
waterfallOn(looped, n) ==
    IF looped.value = "throw" THEN Did(looped, RangeError("Invalid typed array length"))
    ELSE Did(looped, WaterfallData(n + 3, n + 1,
                                   maxDbOf(slicesRead(looped.heap, n + 3))))

computeWaterfallOn(m, ir, sampleRate, options) ==
    waterfallOn(
        slicesOn(allocated(
                     allocated(
                         allocated(m, [i \in 1..options.numFreqPoints |->
                                          fround(frequencyOf(jsLog10(options.fMin),
                                                             jsLog10(options.fMax), i - 1,
                                                             options.numFreqPoints))]),
                         freqBinsOf(sampleRate, options.fMin, options.fMax,
                                    options.numFreqPoints,
                                    nextPowerOfTwo(totalSamplesOf(m.heap[ir], sampleRate,
                                                                  options.windowSec)))),
                     <<>>),
                 ir, sampleRate, options.numSlices,
                 totalSamplesOf(m.heap[ir], sampleRate, options.windowSec),
                 Len(m.heap), 0),
        Len(m.heap))

----------------------------------------------------------------------------
(* useMeasurement.ts.  The hook is a record of its React state and its     *)
(* refs, together with what the browser holds for it: the audio contexts   *)
(* and worklet nodes of the runs, the running intervals, the pending       *)
(* timeouts and the runs whose runMeasurement awaits the worklet module.   *)
(* A run is known by its number r; a ref is <<>> (null) or names what it   *)
(* points to.  A chunk is held by the level computeChunkLevel finds in it, *)
(* and a value computed from the recorded buffer by the name of the        *)
(* function computing it.  The ellipsis of a phase label is written as   *)
(* three dots.                                                             *)

ZeroLevel == [rms |-> 0, peak |-> 0, clipping |-> FALSE]

Applied(function, argument) == [function |-> function, argument |-> argument]

\* the last handler that ran, whether reset() was the last call of the
\* component, and whether a reset() ever abandoned a run: kept for the
\* properties, read by no handler
Seen(h, handler) == [h EXCEPT !.last = handler]

\* a callback of a run is still to come
MidRun(h) ==
    \/ h.intervals # {}
    \/ h.timeouts # {}
    \/ h.awaiting # {}
    \/ \E r \in DOMAIN h.sweeps : h.sweeps[r] = "scheduled"

\* lines 95-98 and 340-343: clearInterval(timerRef.current)
clearTimer(h) ==
    IF h.timerRef # Null
    THEN [h EXCEPT !.intervals = @ \ {h.timerRef}, !.timerRef = Null]
    ELSE h

stopLevelMeter(h) ==
    IF h.levelTimerRef # Null
    THEN [h EXCEPT !.intervals = @ \ {h.levelTimerRef}, !.levelTimerRef = Null]
    ELSE h

\* lines 103-107: the worklet is told to stop and is disconnected
stopWorklet(h) ==
    IF h.workletNodeRef # Null
    THEN [h EXCEPT !.worklets[h.workletNodeRef[1]] = "stopped", !.workletNodeRef = Null]
    ELSE h

\* lines 108-115
closeGraph(h) ==
    [h EXCEPT !.sourceNodeRef = Null,
              !.contexts = IF h.audioCtxRef # Null
                           THEN [@ EXCEPT ![h.audioCtxRef[1]] = "closed"] ELSE @,
              !.audioCtxRef = Null]

teardown(h) == closeGraph(stopWorklet(stopLevelMeter(clearTimer(h))))

\* startMeasurement(stream, outputDeviceId), starting run r
startMeasurement(h, r, countdown) ==
    [h EXCEPT !.result = Null, !.error = Null, !.clippingDetected = FALSE,
              !.level = ZeroLevel, !.chunksRef = <<>>, !.latestChunkRef = Null,
              !.state = "countdown", !.countdownRemaining = countdown,
              !.phaseLabel = "Get ready...",
              !.remaining[r] = countdown,
              !.timerRef = <<"countdown", r>>,
              !.intervals = @ \cup {<<"countdown", r>>},
              !.runs = r, !.afterReset = FALSE, !.last = <<"startMeasurement", r>>]

\* runMeasurement up to its await of the worklet module
runMeasurement(h, r) ==
    [h EXCEPT !.startTimeRef = <<"started", r>>,
              !.contexts[r] = "open",
              !.audioCtxRef = <<r>>,
              !.awaiting = @ \cup {r}]

\* a tick of the countdown interval of run r
countdownTick(h, r) ==
    IF h.remaining[r] - 1 <= 0
    THEN Seen(runMeasurement(clearTimer([h EXCEPT !.remaining[r] = @ - 1,
                                                  !.countdownRemaining =
                                                      h.remaining[r] - 1]),
                             r),
              <<"countdown", r>>)
    ELSE [h EXCEPT !.remaining[r] = @ - 1, !.countdownRemaining = h.remaining[r] - 1,
                   !.last = <<"countdown", r>>]

\* lines 308-312: the catch of runMeasurement
runFailed(h) ==
    [teardown(h) EXCEPT !.state = "error", !.error = <<"Measurement failed.">>]

\* runMeasurement from the module's arrival on: the graph is wired, the
\* recording and the level meter start, the sweep and the pre-roll timer
\* are scheduled; or a step throws
moduleLoaded(h, r, outcome) ==
    IF outcome = "throws"
    THEN Seen(runFailed([h EXCEPT !.awaiting = @ \ {r}]), <<"runMeasurement", r, outcome>>)
    ELSE [h EXCEPT !.awaiting = @ \ {r},
                   !.sourceNodeRef = <<r>>,
                   !.workletNodeRef = <<r>>,
                   !.worklets[r] = "started",
                   !.state = "recording",
                   !.phaseLabel = "Pre-roll silence...",
                   !.levelTimerRef = <<"level", r>>,
                   !.intervals = @ \cup {<<"level", r>>},
                   !.sweeps[r] = "scheduled",
                   !.timeouts = @ \cup {<<"preRoll", r>>},
                   !.last = <<"runMeasurement", r, outcome>>]

\* worklet.port.onmessage with a chunk
chunkReceived(h, r, buf) ==
    [h EXCEPT !.chunksRef = Append(@, buf), !.latestChunkRef = <<buf>>,
              !.last = <<"chunk", r>>]

\* a tick of the level meter
levelTick(h, r) ==
    IF h.latestChunkRef # Null
    THEN [h EXCEPT !.level = h.latestChunkRef[1],
                   !.clippingDetected = @ \/ h.latestChunkRef[1].clipping,
                   !.last = <<"level", r>>]
    ELSE Seen(h, <<"level", r>>)

\* the pre-roll timeout
preRollElapsed(h, r) ==
    [h EXCEPT !.timeouts = @ \ {<<"preRoll", r>>},
              !.state = "playing", !.phaseLabel = "Playing sweep...",
              !.last = <<"preRoll", r>>]

\* sweepSource.onended
sweepEnded(h, r) ==
    [h EXCEPT !.sweeps[r] = "ended",
              !.phaseLabel = "Post-roll silence...", !.state = "recording",
              !.timeouts = @ \cup {<<"postRoll", r>>},
              !.last = <<"ended", r>>]

\* lines 146-148: the worklet is told to stop
postStop(h) ==
    IF h.workletNodeRef # Null
    THEN [h EXCEPT !.worklets[h.workletNodeRef[1]] = "stopped"]
    ELSE h

\* the post-roll timeout: finishRun(sampleRate) up to its setTimeout
finishRun(h, r) ==
    [postStop(stopLevelMeter([h EXCEPT !.state = "stopping",
                                       !.phaseLabel = "Processing..."]))
        EXCEPT !.timeouts = (@ \ {<<"postRoll", r>>}) \cup {<<"drain", r>>},
               !.last = <<"postRoll", r>>]

\* the MeasurementResult of run r over the buffer of the chunks
MeasurementResult(h, r, buffer, impulseResponse) ==
    [buffer |-> buffer,
     meta |-> [sampleRate |-> <<"sampleRate", r>>,
               fStart |-> "SWEEP_FREQ_START", fEnd |-> "SWEEP_FREQ_END",
               sweepDurationSec |-> "sweepDuration",
               preRollSec |-> "PRE_ROLL_SEC", postRollSec |-> "POST_ROLL_SEC",
               startedAt |-> h.startTimeRef,
               completedAt |-> <<"completed", r>>,
               expectedDurationSec |-> "PRE_ROLL_SEC + sweepDuration + POST_ROLL_SEC"],
     rms |-> Applied("computeRms", buffer),
     peak |-> Applied("detectClipping.peak", buffer),
     clipped |-> Applied("detectClipping.clipped", buffer),
     clippedSampleCount |-> Applied("detectClipping.clippedSampleCount", buffer),
     actualDurationSec |-> Applied("buffer.length / sampleRate", buffer),
     impulseResponse |-> impulseResponse]

\* lines 160-180: the impulse response, null when generateInverseFilter or
\* extractImpulseResponse has thrown
impulseResponseOf(buffer, outcome) ==
    IF outcome = "throws" THEN Null
    ELSE <<Applied("extractImpulseResponse", buffer)>>

\* a drain callback without the try: the error leaves the callback
drained_uncaught(h, r, outcome) ==
    IF outcome = "throws"
    THEN [h EXCEPT !.timeouts = @ \ {<<"drain", r>>}, !.last = <<"drain", r, outcome>>]
    ELSE [teardown([h EXCEPT !.result =
                                 MeasurementResult(h, r, h.chunksRef,
                                                   impulseResponseOf(h.chunksRef, outcome))])
             EXCEPT !.timeouts = @ \ {<<"drain", r>>},
                    !.state = "done", !.phaseLabel = "Measurement complete",
                    !.last = <<"drain", r, outcome>>]

\* the drain timeout of finishRun
drained(h, r, outcome) ==
    [teardown([h EXCEPT !.result =
                            MeasurementResult(h, r, h.chunksRef,
                                              impulseResponseOf(h.chunksRef, outcome))])
        EXCEPT !.timeouts = @ \ {<<"drain", r>>},
               !.state = "done", !.phaseLabel = "Measurement complete",
               !.last = <<"drain", r, outcome>>]

\* reset()
reset(h) ==
    [stopLevelMeter(teardown(h))
        EXCEPT !.state = "idle", !.result = Null, !.error = Null,
               !.clippingDetected = FALSE, !.level = ZeroLevel, !.phaseLabel = "",
               !.countdownRemaining = 0, !.chunksRef = <<>>, !.latestChunkRef = Null,
               !.afterReset = TRUE, !.abandoned = @ \/ MidRun(h), !.last = <<"reset">>]

----------------------------------------------------------------------------
(* useTonePlayer (useTonePlayer.ts).  The hook's state is isPlaying and    *)
(* playingFreq; its refs are ctxRef, oscRef, gainRef and timerRef.  Every  *)
(* play() makes one tone: an oscillator with its gain node, known by its   *)
(* number n.  An oscillator is "running" from start() until its stop time, *)
(* "stopping" once stop() has brought that time forward to the end of the  *)
(* fade, and "ended" when its 'ended' event has been delivered; its gain   *)
(* is "up" or has been ramped "down".  `timeouts` holds the tones whose    *)
(* safety timeout is pending.                                              *)

Tone(freq, oscillator, gain) == [freq |-> freq, oscillator |-> oscillator, gain |-> gain]

\* lines 52-55: clearTimeout(timerRef.current)
clearSafetyTimer(h) ==
    IF h.timerRef # Null
    THEN [h EXCEPT !.timeouts = @ \ {h.timerRef[1]}, !.timerRef = Null]
    ELSE h

\* lines 57-70: the gain of gainRef is ramped to 0
fadeOut(h) ==
    IF h.gainRef # Null /\ h.ctxRef # Null
    THEN [h EXCEPT !.tones[h.gainRef[1]].gain = "down"]
    ELSE h

\* lines 72-79: osc.stop(currentTime + FADE_SEC); stopping an oscillator
\* that has ended changes nothing
stopOscillator(h) ==
    IF h.oscRef # Null
    THEN [h EXCEPT !.tones[h.oscRef[1]].oscillator =
                        IF @ = "running" THEN "stopping" ELSE @,
                   !.oscRef = Null]
    ELSE h

\* stop()
stop(h) ==
    [stopOscillator(fadeOut(clearSafetyTimer(h))) EXCEPT
        !.gainRef = Null, !.isPlaying = FALSE, !.playingFreq = Null]

\* lines 91-137 of play(freq): the tone is number n
started(h, freq, n) ==
    [h EXCEPT !.ctxRef = IF @ = Null THEN <<"open">> ELSE @,
              !.tones = Append(@, Tone(freq, "running", "up")),
              !.oscRef = <<n>>,
              !.gainRef = <<n>>,
              !.isPlaying = TRUE,
              !.playingFreq = <<freq>>,
              !.timeouts = @ \cup {n},
              !.timerRef = <<n>>]

\* play(freq)
play(h, freq) == started(stop(h), freq, Len(h.tones) + 1)

\* lines 121-126: osc.onended of tone n
onended(h, n) ==
    [h EXCEPT !.tones[n].oscillator = "ended",
              !.isPlaying = FALSE,
              !.playingFreq = Null,
              !.oscRef = Null,
              !.gainRef = Null]

\* lines 132-135: the safety timeout of tone n
safetyTimeout(h, n) ==
    [h EXCEPT !.timeouts = @ \ {n}, !.isPlaying = FALSE, !.playingFreq = Null]

\* lines 144-150: the cleanup of the effect
unmount(h) ==
    [stop(h) EXCEPT !.ctxRef = Null,
                    !.context = IF h.ctxRef # Null THEN "closed" ELSE @,
                    !.mounted = FALSE]

----------------------------------------------------------------------------
(* Bounds of the input spaces                                              *)

\* the samples of a recording, and the non-zero ones
SampleValues == {-1, 0, 1}

NonZeroValues == SampleValues \ {0}

\* longest first signal (the recording) given to convolve and
\* extractImpulseResponse
MaxLen == 3

\* longest second signal (the inverse filter)
MaxFilterLen == 3

\* largest maxLengthSamples given to extractImpulseResponse
MaxCap == 2

\* most non-zero entries of an (re, im) buffer pair given to fft / ifft
MaxNonZero == 2

\* most consecutive transform calls on one buffer pair
MaxCalls == 2

\* nextPowerOfTwo is called with every n in 0 .. MaxSmallN
MaxSmallN == 40

\* the integer sweep parameters tried are -1 .. MaxParam
MaxParam == 4

\* most lines of a calibration text
MaxLines == 3

\* most points of a calibration
MaxCal == 4

\* the frequencies of calibration points and targets are 10^0 .. 10^MaxExp
MaxExp == 3

\* most target frequencies of one interpolation
MaxTargets == 2

\* most points of a frequency response given to applyCalibration
MaxPoints == 2

\* most points of a frequency response given to smoothFrequencyResponse
MaxSmooth == 4

\* the frequencies of these points are 2^0 .. 2^MaxOct
MaxOct == 3

\* most points of a frequency response given to detectPeaks
MaxResponse == 5

\* most samples of an impulse response before its tail of zeros
MaxDecay == 5

\* most samples of a signal given to computeMagnitudeResponse
MaxSignal == 3

\* most samples of a short input
MaxShort == 2

MaxIr == 4

Pending == [kind |-> "pending"]

\* no hook is mounted
NoHook == [kind |-> "none"]

SeqsUpTo(S, n) == UNION {[1..k -> S] : k \in 0..n}

----------------------------------------------------------------------------
(* The transform engine: a caller owns one buffer pair (re, im) and runs   *)
(* fft and ifft on it in place.                                            *)

\* the (re.length, im.length) pairs tried: the powers of two up to 8, the
\* empty buffers, a length that is no power of two, and unequal lengths
FftLengthPairs ==
    {<<0, 0>>, <<1, 1>>, <<2, 2>>, <<3, 3>>, <<4, 4>>, <<8, 8>>,
     <<2, 4>>, <<4, 2>>}

\* all integer buffer pairs of the given lengths with at most MaxNonZero
\* non-zero entries
SparsePairs(lr, lm) ==
    LET NZ == NonZeroValues
        supports == {S \in SUBSET (1..(lr + lm)) : Cardinality(S) <= MaxNonZero}
        at(S, f, i) == IF i \in S THEN f[i] ELSE 0
    IN  UNION {{<<[i \in 1..lr |-> at(S, f, i)], [i \in 1..lm |-> at(S, f, lr + i)]>> :
                  f \in [S -> NZ]} : S \in supports}

FftInputs == UNION {SparsePairs(l[1], l[2]) : l \in FftLengthPairs}

FftInit ==
    /\ pc = <<>>
    /\ \E b \in FftInputs :
          /\ re = Ints(b[1])
          /\ im = Ints(b[2])
          /\ in = [re |-> Ints(b[1]), im |-> Ints(b[2])]
    /\ out = Pending
    /\ p = 0
    /\ hook = NoHook
    /\ heap = <<>>

\* a transform call leaves its outcome in `out` and the buffers as it left
\* them
Lands(f) ==
    /\ re' = f.re
    /\ im' = f.im
    /\ out' = [kind |-> f.kind, error |-> f.error]

CallFft ==
    /\ Len(pc) < MaxCalls
    /\ out.kind # "throw"
    /\ Lands(fft(re, im))
    /\ pc' = Append(pc, "fft")
    /\ UNCHANGED <<hook, heap, in, p>>

CallIfft ==
    /\ Len(pc) < MaxCalls
    /\ out.kind # "throw"
    /\ Lands(ifft(re, im))
    /\ pc' = Append(pc, "ifft")
    /\ UNCHANGED <<hook, heap, in, p>>

FftNext == CallFft \/ CallIfft

SpecFft == FftInit /\ [][FftNext]_vars

----------------------------------------------------------------------------
(* Convolution and impulse-response extraction: one call on one pair of    *)
(* signals.                                                                *)

\* the inputs of the repository's own convolution tests
KnownSignals == {<<1, 2, 3>>, <<4, 5>>, <<1, 0, 0>>}

\* every recording over SampleValues with every inverse filter of non-zero
\* samples, and the known signals with each other
ConvInputs ==
    (SeqsUpTo(SampleValues, MaxLen) \X SeqsUpTo(NonZeroValues, MaxFilterLen))
        \cup (KnownSignals \X KnownSignals)

Caps == {NoCap} \cup {<<n>> : n \in 0..MaxCap}

ConvInit ==
    /\ pc = "start"
    /\ \E ab \in ConvInputs : in = [a |-> ab[1], b |-> ab[2], maxLengthSamples |-> NoCap]
    /\ out = Pending
    /\ re = <<>>
    /\ im = <<>>
    /\ p = 0
    /\ hook = NoHook
    /\ heap = <<>>

CallConvolve ==
    /\ pc = "start"
    /\ out' = [kind |-> "return", value |-> convolve(Ints(in.a), Ints(in.b))]
    /\ pc' = "convolve"
    /\ UNCHANGED <<hook, heap, in, re, im, p>>

CallExtractImpulseResponse ==
    /\ pc = "start"
    /\ \E cap \in Caps :
          /\ in' = [in EXCEPT !.maxLengthSamples = cap]
          /\ out' = [kind |-> "return",
                     value |-> extractImpulseResponse(Ints(in.a), Ints(in.b), cap)]
    /\ pc' = "extract"
    /\ UNCHANGED <<hook, heap, re, im, p>>

ConvNext == CallConvolve \/ CallExtractImpulseResponse

SpecConv == ConvInit /\ [][ConvNext]_vars

----------------------------------------------------------------------------
(* nextPowerOfTwo, one loop iteration per step                             *)

\* the small n, and the n around the powers of two where the 32-bit shift
\* could wrap
NptInputs ==
    (0..MaxSmallN) \cup
    {65535, 65536, 65537, TwoPow30 - 1, TwoPow30, TwoPow30 + 1, MaxInt32}

NptInit ==
    /\ pc = "entry"
    /\ \E n \in NptInputs : in = [n |-> n]
    /\ out = Pending
    /\ re = <<>>
    /\ im = <<>>
    /\ p = 0
    /\ hook = NoHook
    /\ heap = <<>>

\* `if (n <= 1) return 1; let p = 1`
NptEnter ==
    /\ pc = "entry"
    /\ IF in.n <= 1
       THEN pc' = "done" /\ out' = [kind |-> "return", value |-> 1] /\ p' = p
       ELSE pc' = "loop" /\ out' = out /\ p' = 1
    /\ UNCHANGED <<hook, heap, in, re, im>>

\* one iteration of `while (p < n) p <<= 1`
NptShift ==
    /\ pc = "loop"
    /\ p < in.n
    /\ p' = Shl1(p)
    /\ UNCHANGED <<hook, heap, pc, in, out, re, im>>

\* `return p` once the loop condition fails
NptReturn ==
    /\ pc = "loop"
    /\ ~(p < in.n)
    /\ pc' = "done"
    /\ out' = [kind |-> "return", value |-> p]
    /\ UNCHANGED <<hook, heap, in, re, im, p>>

NptNext == NptEnter \/ NptShift \/ NptReturn

SpecNpt == NptInit /\ [][NptNext]_vars

\* the call keeps running as long as it has a step to take
FairSpecNpt == SpecNpt /\ WF_vars(NptNext)

----------------------------------------------------------------------------
(* Sweep generation: one call with one set of parameters                   *)

\* the small integers, one half, and the numbers that are not finite
SweepValues ==
    {Fin(Num(n)) : n \in -1..MaxParam}
        \cup {Fin(Q(1, 0, 2)), Infinity, NegInfinity, NotANumber}

SweepInit ==
    /\ pc = "start"
    /\ \E fs \in SweepValues, fe \in SweepValues, d \in SweepValues, sr \in SweepValues :
          in = [fStart |-> fs, fEnd |-> fe, durationSec |-> d, sampleRate |-> sr]
    /\ out = Pending
    /\ re = <<>>
    /\ im = <<>>
    /\ p = 0
    /\ hook = NoHook
    /\ heap = <<>>

CallGenerateLogSweep ==
    /\ pc = "start"
    /\ out' = generateLogSweep(in)
    /\ pc' = "sweep"
    /\ UNCHANGED <<hook, heap, in, re, im, p>>

CallGenerateInverseFilter ==
    /\ pc = "start"
    /\ out' = generateInverseFilter(in)
    /\ pc' = "inverse"
    /\ UNCHANGED <<hook, heap, in, re, im, p>>

SweepNext == CallGenerateLogSweep \/ CallGenerateInverseFilter

SpecSweep == SweepInit /\ [][SweepNext]_vars

----------------------------------------------------------------------------
(* Calibration parsing: one call on one text.  A text is made of lines of  *)
(* the forms below; `is` records what the line is to a reader of the file  *)
(* format, and freq and db the numbers a point line states.                *)

Skip(chars) == [chars |-> chars, is |-> "skip", freq |-> Zero, db |-> Zero]

Point(chars, freq, db) == [chars |-> chars, is |-> "point", freq |-> freq, db |-> db]

Bad(chars, why) == [chars |-> chars, is |-> why, freq |-> Zero, db |-> Zero]

LineForms ==
    { Skip(<<>>),
      Skip(<<"#", "1", " ", "2">>),
      Skip(<<" ", "*">>),
      Point(<<"1", "0", " ", "-", "1">>, Num(10), Num(-1)),
      Point(<<"2", ",", "0", ".", "5">>, Num(2), Q(1, 0, 2)),
      Point(<<" ", "1", "\t", " ", "3", " ">>, Num(1), Num(3)),
      Point(<<"1", "0", " ", "2", " ", "z">>, Num(10), Num(2)),
      Bad(<<"7">>, "few tokens"),
      Bad(<<"z", " ", "1">>, "bad frequency"),
      Bad(<<"0", " ", "1">>, "bad frequency"),
      Bad(<<"1", " ", "z">>, "bad dB"),
      Bad(<<"5", ",">>, "few tokens") }

LF == <<"\n">>

CRLF == <<"\r", "\n">>

\* the lines joined by the line break eol
RECURSIVE JoinLines(_, _)
JoinLines(forms, eol) ==
    IF Len(forms) = 0 THEN <<>>
    ELSE IF Len(forms) = 1 THEN forms[1].chars
    ELSE forms[1].chars \o eol \o JoinLines(Tail(forms), eol)

ParseInit ==
    /\ pc = "start"
    /\ \E forms \in SeqsUpTo(LineForms, MaxLines), eol \in {LF, CRLF},
          filename \in {"mic.txt", ""} :
          in = [lines |-> forms, eol |-> eol,
                text |-> JoinLines(forms, eol), filename |-> filename]
    /\ out = Pending
    /\ re = <<>>
    /\ im = <<>>
    /\ p = 0
    /\ hook = NoHook
    /\ heap = <<>>

CallParseCalibrationFile ==
    /\ pc = "start"
    /\ out' = parseCalibrationFile(in.text, in.filename)
    /\ pc' = "parsed"
    /\ UNCHANGED <<hook, heap, in, re, im, p>>

ParseNext == CallParseCalibrationFile

SpecParse == ParseInit /\ [][ParseNext]_vars

----------------------------------------------------------------------------
(* Calibration interpolation: one call on one calibration and one list of  *)
(* target frequencies                                                      *)

GridFreqs == {Num(10 ^ k) : k \in 0..MaxExp}

DbValues == {Num(-2), Num(3)}

CalPoint(f, d) == [freq |-> Num(f), db |-> Num(d)]

\* calibrations in which a frequency occurs twice, as a parsed file may
TiedCalibrations ==
    { <<CalPoint(1, 3), CalPoint(10, -2), CalPoint(10, 3), CalPoint(100, -2)>>,
      <<CalPoint(1, 3), CalPoint(1, -2), CalPoint(100, 0)>>,
      <<CalPoint(1, 0), CalPoint(100, 3), CalPoint(100, -2)>>,
      <<CalPoint(10, -2), CalPoint(10, 3)>> }

\* the members of a set of integers in ascending order
RECURSIVE Ascending(_)
Ascending(S) ==
    IF S = {} THEN <<>>
    ELSE <<CHOOSE x \in S : \A y \in S : x <= y>>
            \o Ascending(S \ {CHOOSE x \in S : \A y \in S : x <= y})

\* the calibrations with the frequencies 10^exps[1], 10^exps[2], ...
CalibrationsAt(exps) ==
    {[i \in 1..Len(exps) |-> [freq |-> Num(10 ^ exps[i]), db |-> d[i]]] :
        d \in [1..Len(exps) -> DbValues]}

\* the calibrations of up to MaxCal points in strictly ascending frequency,
\* and the tied ones
Calibrations ==
    UNION {CalibrationsAt(Ascending(S)) :
              S \in {T \in SUBSET (0..MaxExp) : Cardinality(T) <= MaxCal}}
        \cup TiedCalibrations

InterpInit ==
    /\ pc = "start"
    /\ \E c \in Calibrations, t \in SeqsUpTo(GridFreqs, MaxTargets) :
          in = [calibration |-> c, targetFreqs |-> t]
    /\ out = Pending
    /\ re = <<>>
    /\ im = <<>>
    /\ p = 0
    /\ hook = NoHook
    /\ heap = <<>>

CallInterpolateCalibration ==
    /\ pc = "start"
    /\ out' = [kind |-> "return",
               value |-> interpolateCalibration(in.calibration, in.targetFreqs)]
    /\ pc' = "interpolated"
    /\ UNCHANGED <<hook, heap, in, re, im, p>>

\* the target is neither at or below the first calibration frequency nor
\* at or above the last: lines 124 and 127 do not return
ReachesSearch(calLogFreqs, logFreq) ==
    /\ Len(calLogFreqs) > 0
    /\ ~Le(logFreq, At(calLogFreqs, 0))
    /\ ~Ge(logFreq, At(calLogFreqs, Len(calLogFreqs) - 1))

\* the callback of targetFreqs.map on one target that reaches the binary
\* search: the indices the search ends with and the value returned
SearchForTarget ==
    /\ pc = "start"
    /\ \E i \in 1..Len(in.targetFreqs) :
          /\ ReachesSearch(calLogFreqsOf(in.calibration), MathLog10(in.targetFreqs[i]))
          /\ out' = [kind |-> "search",
                     target |-> i,
                     lohi |-> searchLoop(calLogFreqsOf(in.calibration),
                                         MathLog10(in.targetFreqs[i]),
                                         0, Len(in.calibration) - 1),
                     value |-> interpolateAt(calLogFreqsOf(in.calibration),
                                             calDbsOf(in.calibration),
                                             MathLog10(in.targetFreqs[i]))]
    /\ pc' = "searched"
    /\ UNCHANGED <<hook, heap, in, re, im, p>>

InterpNext == CallInterpolateCalibration \/ SearchForTarget

SpecInterp == InterpInit /\ [][InterpNext]_vars

----------------------------------------------------------------------------
(* Applying a calibration: one call on one response and one calibration,   *)
(* both already on the heap                                                *)

\* the responses of up to MaxPoints points in ascending frequency
Responses ==
    UNION {CalibrationsAt(Ascending(S)) :
              S \in {T \in SUBSET (0..MaxExp) : Cardinality(T) <= MaxPoints}}

ApplyInit ==
    /\ pc = "start"
    /\ \E r \in Responses, c \in Calibrations :
          /\ heap = <<r, c>>
          /\ in = [points |-> 1,
                   calibration |-> [filename |-> "mic.txt", points |-> 2],
                   heap |-> <<r, c>>]
    /\ out = Pending
    /\ re = <<>>
    /\ im = <<>>
    /\ p = 0
    /\ hook = NoHook

CallApplyCalibration ==
    /\ pc = "start"
    /\ heap' = applyCalibration(heap, in.points, in.calibration).heap
    /\ out' = [kind |-> "return",
               value |-> applyCalibration(heap, in.points, in.calibration).value]
    /\ pc' = "applied"
    /\ UNCHANGED <<hook, in, re, im, p>>

ApplyNext == CallApplyCalibration

SpecApply == ApplyInit /\ [][ApplyNext]_vars

----------------------------------------------------------------------------
(* Smoothing: one call on one response on the heap                         *)

\* the responses with the frequencies 2^exps[1], 2^exps[2], ...
OctaveResponsesAt(exps) ==
    {[i \in 1..Len(exps) |-> [freq |-> Num(2 ^ exps[i]), db |-> d[i]]] :
        d \in [1..Len(exps) -> DbValues]}

\* the responses of up to MaxSmooth points sorted ascending by frequency,
\* equal frequencies allowed
OctaveResponses ==
    UNION {OctaveResponsesAt(e) :
              e \in {x \in SeqsUpTo(0..MaxOct, MaxSmooth) :
                        \A i \in 1..(Len(x) - 1) : x[i] <= x[i + 1]}}

\* no width, widths that are not positive, and positive widths that end
\* between two octaves, on an octave, and nowhere
FractionValues ==
    {Undefined, NotANumber, Fin(Num(-1)), Fin(Zero),
     Fin(Q(1, 0, 3)), Fin(Num(1)), Fin(Num(2)), Fin(Num(3)), Infinity}

SmoothInit ==
    /\ pc = "start"
    /\ \E r \in OctaveResponses, f \in FractionValues :
          /\ heap = <<r>>
          /\ in = [points |-> 1, fractionOfOctave |-> f, heap |-> <<r>>]
    /\ out = Pending
    /\ re = <<>>
    /\ im = <<>>
    /\ p = 0
    /\ hook = NoHook

CallSmoothFrequencyResponse ==
    /\ pc = "start"
    /\ heap' = smoothFrequencyResponse(heap, in.points, in.fractionOfOctave).heap
    /\ out' = [kind |-> "return",
               value |-> smoothFrequencyResponse(heap, in.points,
                                                 in.fractionOfOctave).value]
    /\ pc' = "smoothed"
    /\ UNCHANGED <<hook, in, re, im, p>>

SmoothNext == CallSmoothFrequencyResponse

SpecSmooth == SmoothInit /\ [][SmoothNext]_vars

----------------------------------------------------------------------------
(* Peak detection: one call on one response with one set of options        *)

\* frequencies below, on and above the limits of the default bands
BandFreqs == <<5, 10, 20, 150, 300, 5000, 15000, 20000, 30000, 40000>>

\* the dB levels of the points: steps of 1, 3 and 4 dB between them
PeakDbLevels == {0, 1, 4}

\* two bands that overlap, in the order given to detectPeaks
OverlappingBands == <<Band("low", 0, 1000), Band("wide", 100, 20000)>>

NoOptions == [minProminence |-> <<>>, maxPeaks |-> <<>>, bands |-> <<>>]

PeakOptions ==
    { NoOptions,
      [NoOptions EXCEPT !.minProminence = <<Num(1)>>],
      [NoOptions EXCEPT !.minProminence = <<Num(1)>>, !.maxPeaks = <<1>>],
      [NoOptions EXCEPT !.minProminence = <<Num(4)>>, !.maxPeaks = <<2>>],
      [NoOptions EXCEPT !.minProminence = <<Zero>>, !.maxPeaks = <<0>>],
      [NoOptions EXCEPT !.minProminence = <<Num(1)>>, !.maxPeaks = <<-1>>],
      [NoOptions EXCEPT !.minProminence = <<Num(1)>>, !.bands = <<OverlappingBands>>],
      [NoOptions EXCEPT !.bands = <<<<>>>>] }

\* the response with the dB levels dbs at the frequencies from the
\* (start + 1)-th of BandFreqs on
ResponseAt(dbs, start) ==
    [i \in 1..Len(dbs) |-> [freq |-> Num(BandFreqs[start + i]), db |-> Num(dbs[i])]]

\* the calls of detectPeaks on responses of up to n points
PeakCalls(n) ==
    {[points |-> ResponseAt(dbs, start), options |-> options] :
        dbs \in SeqsUpTo(PeakDbLevels, n), start \in {0, 3, 4}, options \in PeakOptions}

PeaksInit ==
    /\ pc = "start"
    /\ in \in PeakCalls(MaxResponse)
    /\ out = Pending
    /\ re = <<>>
    /\ im = <<>>
    /\ p = 0
    /\ hook = NoHook
    /\ heap = <<>>

CallDetectPeaks ==
    /\ pc = "start"
    /\ out' = [kind |-> "return", value |-> detectPeaks(in.points, in.options)]
    /\ pc' = "detected"
    /\ UNCHANGED <<hook, heap, in, re, im, p>>

PeaksNext == CallDetectPeaks

SpecPeaks == PeaksInit /\ [][PeaksNext]_vars

----------------------------------------------------------------------------
(* RT60 estimation: one call of estimateRT60 or computeEDC on one impulse  *)
(* response                                                                *)

\* by how many dB the decay curve falls from one sample to the next: not
\* at all, by 10 dB, or by 130 dB, which is below the -120 dB floor
DecaySteps == {0, 10, 130}

\* the level of the i-th sample of a decay with the given steps, in dB
\* below 1
RECURSIVE LevelAt(_, _)
LevelAt(steps, i) == IF i = 0 THEN 0 ELSE LevelAt(steps, i - 1) + steps[i]

\* the impulse response whose backward energy sums are the levels of the
\* steps, followed by `tail` zero samples
DecayingIR(steps, tail) ==
    [i \in 1..(Len(steps) + tail) |->
        IF i > Len(steps) THEN Sample(0, ZeroEnergy)
        ELSE IF i = Len(steps) THEN Sample(1, tPow(LevelAt(steps, i)))
        ELSE IF steps[i + 1] = 0 THEN Sample(0, ZeroEnergy)
        ELSE Sample(IF i % 2 = 0 THEN 1 ELSE -1,
                    energySub(tPow(LevelAt(steps, i)), tPow(LevelAt(steps, i + 1))))]

\* how many zero samples end the impulse response
TailLengths == {0, 1, 2}

SampleRates ==
    {NotANumber, Fin(Num(-1)), Fin(Zero), Fin(Q(1, 0, 10)), Fin(Num(1))}

\* the calls of estimateRT60 on decays of up to n samples
DecayCalls(n) ==
    {[ir |-> DecayingIR(steps, tail), sampleRate |-> sampleRate] :
        steps \in SeqsUpTo(DecaySteps, n), tail \in TailLengths,
        sampleRate \in SampleRates}

RT60Init ==
    /\ pc = "start"
    /\ in \in DecayCalls(MaxDecay)
    /\ out = Pending
    /\ re = <<>>
    /\ im = <<>>
    /\ p = 0
    /\ hook = NoHook
    /\ heap = <<>>

CallEstimateRT60 ==
    /\ pc = "start"
    /\ out' = [kind |-> "return", value |-> estimateRT60(in.ir, in.sampleRate)]
    /\ pc' = "estimated"
    /\ UNCHANGED <<hook, heap, in, re, im, p>>

CallComputeEDC ==
    /\ pc = "start"
    /\ out' = [kind |-> "return", value |-> computeEDC(in.ir)]
    /\ pc' = "edc"
    /\ UNCHANGED <<hook, heap, in, re, im, p>>

\* the two ranges estimateRT60 fits: -5..-25 dB and -5..-35 dB
FitRanges == {<<Num(-5), Num(-25)>>, <<Num(-5), Num(-35)>>}

\* estimateRT60 reaches its fits with two samples or more and some energy
ReachesFits(ir) == Len(ir) >= 2 /\ energySign(edcOf(energyOf(ir))[1]) > 0

\* one of the two calls of fitDecayRange that estimateRT60 makes
CallFitDecayRange ==
    /\ pc = "start"
    /\ ReachesFits(in.ir)
    /\ \E range \in FitRanges :
          out' = [kind |-> "return",
                  value |-> fitDecayRange(
                                edcDbOf(edcOf(energyOf(in.ir)), edcOf(energyOf(in.ir))[1]),
                                in.sampleRate, range[1], range[2]),
                  startDb |-> range[1], endDb |-> range[2]]
    /\ pc' = "fitted"
    /\ UNCHANGED <<hook, heap, in, re, im, p>>

RT60Next == CallEstimateRT60 \/ CallComputeEDC \/ CallFitDecayRange

SpecRT60 == RT60Init /\ [][RT60Next]_vars

----------------------------------------------------------------------------
(* Frequency response: one call of computeMagnitudeResponse                *)

SignalValues == {0, 1}

ResponseRates == {Fin(Num(20)), Fin(Num(2000))}

LowerFreqs == {Fin(Q(1, 0, 10)), Fin(Num(1)), Fin(Num(10))}

UpperFreqs == {Fin(Num(10)), Fin(Num(1000)), Fin(Num(100000))}

PointCounts == {-1, 0, 1, 2, 3}

\* the decades between the two ends of the axis
DecadesOf(sampleRate, fMin, fMax) ==
    logFMaxOf(fMax, sampleRate).v[1] - logFMinOf(fMin).v[1]

\* every frequency of the axis is a power of ten
OnDecades(sampleRate, fMin, fMax, numPoints) ==
    /\ DecadesOf(sampleRate, fMin, fMax) >= 0
    /\ numPoints >= 2 => DecadesOf(sampleRate, fMin, fMax) % (numPoints - 1) = 0

\* the calls of computeMagnitudeResponse on signals of up to n samples
ResponseCalls(n) ==
    {call \in [signal : {Ints(signal) : signal \in SeqsUpTo(SignalValues, n)},
               sampleRate : ResponseRates, fMin : LowerFreqs, fMax : UpperFreqs,
               numPoints : PointCounts] :
        OnDecades(call.sampleRate, call.fMin, call.fMax, call.numPoints)}

ResponseInit ==
    /\ pc = "start"
    /\ in \in ResponseCalls(MaxSignal)
    /\ out = Pending
    /\ re = <<>>
    /\ im = <<>>
    /\ p = 0
    /\ hook = NoHook
    /\ heap = <<>>

CallComputeMagnitudeResponse ==
    /\ pc = "start"
    /\ out' = [kind |-> "return",
               value |-> computeMagnitudeResponse(in.signal, in.sampleRate, in.fMin,
                                                  in.fMax, in.numPoints),
               reads |-> magnitudeReads(in.signal, in.sampleRate, in.fMin,
                                        in.fMax, in.numPoints)]
    /\ pc' = "measured"
    /\ UNCHANGED <<hook, heap, in, re, im, p>>

ResponseNext == CallComputeMagnitudeResponse

SpecResponse == ResponseInit /\ [][ResponseNext]_vars

----------------------------------------------------------------------------
(* The analyses that may have no result: one call of estimateRT60,         *)
(* detectPeaks, convolve or computeMagnitudeResponse on a short input      *)

\* the calls of convolve on buffers of up to n samples
ConvolveCalls(n) ==
    {[a |-> a, b |-> b, maxLengthSamples |-> NoCap] :
        a \in SeqsUpTo(SignalValues, n), b \in SeqsUpTo(SignalValues, n)}

NonResultInit ==
    /\ pc = "start"
    /\ \/ in \in DecayCalls(MaxShort + 2)
       \/ in \in PeakCalls(MaxShort + 2)
       \/ in \in ConvolveCalls(MaxShort)
       \/ in \in ResponseCalls(MaxShort)
    /\ out = Pending
    /\ re = <<>>
    /\ im = <<>>
    /\ p = 0
    /\ hook = NoHook
    /\ heap = <<>>

\* each call, on the arguments made for it
EstimateRT60OfDecay == "ir" \in DOMAIN in /\ CallEstimateRT60

DetectPeaksOfResponse == "points" \in DOMAIN in /\ CallDetectPeaks

ConvolveOfBuffers == "a" \in DOMAIN in /\ CallConvolve

MagnitudeResponseOfSignal == "signal" \in DOMAIN in /\ CallComputeMagnitudeResponse

NonResultNext ==
    \/ EstimateRT60OfDecay
    \/ DetectPeaksOfResponse
    \/ ConvolveOfBuffers
    \/ MagnitudeResponseOfSignal

SpecNonResults == NonResultInit /\ [][NonResultNext]_vars

----------------------------------------------------------------------------
(* Waterfall: one call of computeWaterfall on one impulse response         *)

WaterfallRates == {Fin(Num(1)), Fin(Num(4))}

WindowLengths == {Fin(Num(-1)), Fin(Zero), Fin(Q(3, 0, 8)), Fin(Num(1)), Fin(Num(2))}

SliceCounts == {0, 1, 2, 3}

FreqPointCounts == {0, 1, 2}

WaterfallOptions ==
    [numSlices : SliceCounts, windowSec : WindowLengths, numFreqPoints : FreqPointCounts,
     fMin : {Fin(Num(1))}, fMax : {Fin(Num(1)), Fin(Num(10))}]

\* the calls of computeWaterfall on impulse responses of up to n samples
WaterfallCalls(n) ==
    [ir : {Ints(ir) : ir \in SeqsUpTo(SignalValues, n)},
     sampleRate : WaterfallRates, options : WaterfallOptions]

WaterfallInit ==
    /\ pc = "start"
    /\ in \in WaterfallCalls(MaxIr)
    /\ out = Pending
    /\ re = <<>>
    /\ im = <<>>
    /\ p = 0
    /\ hook = NoHook
    /\ heap = <<>>

CallComputeWaterfall ==
    /\ pc = "start"
    /\ out' = computeWaterfall(in.ir, in.sampleRate, in.options)
    /\ pc' = "waterfall"
    /\ UNCHANGED <<hook, heap, in, re, im, p>>

WaterfallNext == CallComputeWaterfall

SpecWaterfall == WaterfallInit /\ [][WaterfallNext]_vars

----------------------------------------------------------------------------
(* The pipeline stages on the heap: one call of one stage, its inputs      *)
(* already on the heap at the references 1, 2, ...                         *)

\* the default ratio, and two that give fades of up to four samples
FadeRatios == {Fin(Q(1, 0, 10)), Fin(Q(1, 0, 2)), Fin(Q(4, 0, 5))}

WindowDurations == {<<>>, <<Fin(Num(1))>>, <<Fin(Num(-1))>>}

\* a call of `stage` with the arguments `call` and the inputs h
Staged(stage, call, h) == [stage |-> stage, call |-> call, heap |-> h]

PipelineInit ==
    /\ pc = "start"
    /\ \/ \E c \in ConvolveCalls(MaxShort) :
             in = Staged("convolve", c, <<Ints(c.a), Ints(c.b)>>)
       \/ \E c \in ConvolveCalls(MaxShort), cap \in Caps :
             in = Staged("extractImpulseResponse", [c EXCEPT !.maxLengthSamples = cap],
                         <<Ints(c.a), Ints(c.b)>>)
       \/ \E ir \in SeqsUpTo(SignalValues, MaxIr), d \in WindowDurations,
             f \in FadeRatios :
             in = Staged("windowIR",
                         [sampleRate |-> Fin(Num(2)), maxDurationSec |-> d,
                          fadeOutRatio |-> f],
                         <<Ints(ir)>>)
       \/ \E c \in ResponseCalls(MaxShort) :
             in = Staged("computeMagnitudeResponse", c, <<c.signal>>)
       \/ \E r \in {x \in OctaveResponses : Len(x) <= MaxShort}, f \in FractionValues :
             in = Staged("smoothFrequencyResponse", [fractionOfOctave |-> f], <<r>>)
       \/ \E r \in {x \in Responses : Len(x) <= MaxShort},
             c \in {x \in Calibrations : Len(x) <= MaxShort} :
             in = Staged("applyCalibration",
                         [calibration |-> [filename |-> "mic.txt", points |-> 2]],
                         <<r, c>>)
       \/ \E c \in PeakCalls(MaxShort + 2) :
             in = Staged("detectPeaks",
                         [options |-> IF c.options.bands = <<>> THEN c.options
                                      ELSE [c.options EXCEPT !.bands = <<2>>]],
                         IF c.options.bands = <<>> THEN <<c.points>>
                         ELSE <<c.points, c.options.bands[1]>>)
       \/ \E c \in DecayCalls(MaxShort + 2) :
             in = Staged("estimateRT60", c, <<c.ir>>)
       \/ \E c \in DecayCalls(MaxShort + 2) :
             in = Staged("computeEDC", c, <<c.ir>>)
       \/ \E c \in WaterfallCalls(MaxShort + 1) :
             in = Staged("computeWaterfall", c, <<c.ir>>)
    /\ heap = in.heap
    /\ out = Pending
    /\ re = <<>>
    /\ im = <<>>
    /\ p = 0
    /\ hook = NoHook

\* the stage has left `done`
Ran(done) ==
    /\ heap' = done.heap
    /\ out' = [kind |-> "done", value |-> done.value, transformed |-> done.transformed]
    /\ pc' = "ran"
    /\ UNCHANGED <<hook, in, re, im, p>>

ConvolveStage ==
    /\ pc = "start" /\ in.stage = "convolve"
    /\ Ran(convolveOn(Memory(heap, {}), 1, 2))

ExtractImpulseResponseStage ==
    /\ pc = "start" /\ in.stage = "extractImpulseResponse"
    /\ Ran(extractImpulseResponseOn(Memory(heap, {}), 1, 2, in.call.maxLengthSamples))

WindowIRStage ==
    /\ pc = "start" /\ in.stage = "windowIR"
    /\ Ran(windowIROn(Memory(heap, {}), 1, in.call.sampleRate, in.call.maxDurationSec,
                      in.call.fadeOutRatio))

ComputeMagnitudeResponseStage ==
    /\ pc = "start" /\ in.stage = "computeMagnitudeResponse"
    /\ Ran(computeMagnitudeResponseOn(Memory(heap, {}), 1, in.call.sampleRate,
                                      in.call.fMin, in.call.fMax, in.call.numPoints))

SmoothFrequencyResponseStage ==
    /\ pc = "start" /\ in.stage = "smoothFrequencyResponse"
    /\ Ran(smoothFrequencyResponseOn(Memory(heap, {}), 1, in.call.fractionOfOctave))

ApplyCalibrationStage ==
    /\ pc = "start" /\ in.stage = "applyCalibration"
    /\ Ran(applyCalibrationOn(Memory(heap, {}), 1, in.call.calibration))

DetectPeaksStage ==
    /\ pc = "start" /\ in.stage = "detectPeaks"
    /\ Ran(detectPeaksOn(Memory(heap, {}), 1, in.call.options))

EstimateRT60Stage ==
    /\ pc = "start" /\ in.stage = "estimateRT60"
    /\ Ran(estimateRT60On(Memory(heap, {}), 1, in.call.sampleRate))

ComputeEDCStage ==
    /\ pc = "start" /\ in.stage = "computeEDC"
    /\ Ran(computeEDCOn(Memory(heap, {}), 1))

ComputeWaterfallStage ==
    /\ pc = "start" /\ in.stage = "computeWaterfall"
    /\ Ran(computeWaterfallOn(Memory(heap, {}), 1, in.call.sampleRate, in.call.options))

PipelineNext ==
    \/ ConvolveStage
    \/ ExtractImpulseResponseStage
    \/ WindowIRStage
    \/ ComputeMagnitudeResponseStage
    \/ SmoothFrequencyResponseStage
    \/ ApplyCalibrationStage
    \/ DetectPeaksStage
    \/ EstimateRT60Stage
    \/ ComputeEDCStage
    \/ ComputeWaterfallStage

SpecPipeline == PipelineInit /\ [][PipelineNext]_vars

----------------------------------------------------------------------------
(* useMeasurement: the component calls startMeasurement when the state is  *)
(* idle (MeasurementPanel) and may call reset() at any time; the browser   *)
(* runs the callbacks of the intervals, timeouts, promises and events that *)
(* are pending, one at a time.                                             *)

Runs == 1..2

COUNTDOWN_SECONDS == 2

MaxChunks == 2

\* the chunks the worklet posts: a quiet one and a clipping one
Chunks == {[rms |-> 1, peak |-> 1, clipping |-> FALSE],
           [rms |-> 2, peak |-> 3, clipping |-> TRUE]}

MountedMeasurement ==
    [kind |-> "useMeasurement",
     state |-> "idle", countdownRemaining |-> 0, level |-> ZeroLevel,
     clippingDetected |-> FALSE, phaseLabel |-> "", result |-> Null, error |-> Null,
     audioCtxRef |-> Null, workletNodeRef |-> Null, sourceNodeRef |-> Null,
     chunksRef |-> <<>>, timerRef |-> Null, levelTimerRef |-> Null,
     latestChunkRef |-> Null, startTimeRef |-> <<>>,
     contexts |-> [r \in Runs |-> "none"],
     worklets |-> [r \in Runs |-> "none"],
     sweeps |-> [r \in Runs |-> "none"],
     remaining |-> [r \in Runs |-> 0],
     intervals |-> {}, timeouts |-> {}, awaiting |-> {},
     runs |-> 0, afterReset |-> FALSE, abandoned |-> FALSE, last |-> <<>>]

MeasurementInit ==
    /\ pc = "mounted"
    /\ in = <<>>
    /\ out = Pending
    /\ re = <<>>
    /\ im = <<>>
    /\ p = 0
    /\ heap = <<>>
    /\ hook = MountedMeasurement

\* the hook goes to h and nothing else changes
Becomes(h) == hook' = h /\ UNCHANGED <<pc, in, out, re, im, p, heap>>

StartMeasurement ==
    /\ hook.state = "idle"
    /\ hook.runs + 1 \in Runs
    /\ Becomes(startMeasurement(hook, hook.runs + 1, COUNTDOWN_SECONDS))

CountdownTick ==
    \E r \in Runs :
        /\ <<"countdown", r>> \in hook.intervals
        /\ Becomes(countdownTick(hook, r))

ModuleLoaded ==
    \E r \in hook.awaiting, outcome \in {"returns", "throws"} :
        Becomes(moduleLoaded(hook, r, outcome))

ChunkReceived ==
    \E r \in Runs, buf \in Chunks :
        /\ hook.worklets[r] = "started"
        /\ Len(hook.chunksRef) < MaxChunks
        /\ Becomes(chunkReceived(hook, r, buf))

LevelTick ==
    \E r \in Runs :
        /\ <<"level", r>> \in hook.intervals
        /\ Becomes(levelTick(hook, r))

PreRollElapsed ==
    \E r \in Runs :
        /\ <<"preRoll", r>> \in hook.timeouts
        /\ Becomes(preRollElapsed(hook, r))

\* the sweep starts when the pre-roll is over and ends after it
SweepEnded ==
    \E r \in Runs :
        /\ hook.sweeps[r] = "scheduled"
        /\ <<"preRoll", r>> \notin hook.timeouts
        /\ Becomes(sweepEnded(hook, r))

PostRollElapsed ==
    \E r \in Runs :
        /\ <<"postRoll", r>> \in hook.timeouts
        /\ Becomes(finishRun(hook, r))

DrainElapsed ==
    \E r \in Runs, outcome \in {"returns", "throws"} :
        /\ <<"drain", r>> \in hook.timeouts
        /\ Becomes(drained(hook, r, outcome))

Reset ==
    /\ hook.kind = "useMeasurement"
    /\ Becomes(reset(hook))

MeasurementNext ==
    \/ StartMeasurement
    \/ CountdownTick
    \/ ModuleLoaded
    \/ ChunkReceived
    \/ LevelTick
    \/ PreRollElapsed
    \/ SweepEnded
    \/ PostRollElapsed
    \/ DrainElapsed
    \/ Reset

SpecMeasurement == MeasurementInit /\ [][MeasurementNext]_vars

----------------------------------------------------------------------------
(* useTonePlayer: play() and stop() calls on one mounted component, with   *)
(* the 'ended' events and the safety timeouts arriving in between.  The    *)
(* fade of a stopped oscillator is shorter than a tone, and the safety     *)
(* timeout is longer: a running oscillator ends only when no stopped one   *)
(* is still fading, and a safety timeout fires only after its tone's end.  *)

ToneFreqs == {100, 200}

MaxTones == 3

MountedTonePlayer ==
    [kind |-> "useTonePlayer",
     isPlaying |-> FALSE, playingFreq |-> Null,
     ctxRef |-> Null, oscRef |-> Null, gainRef |-> Null, timerRef |-> Null,
     tones |-> <<>>, timeouts |-> {}, context |-> "none", mounted |-> TRUE,
     stopped |-> FALSE, last |-> <<>>]

TonePlayerInit ==
    /\ pc = "mounted"
    /\ in = <<>>
    /\ out = Pending
    /\ re = <<>>
    /\ im = <<>>
    /\ p = 0
    /\ heap = <<>>
    /\ hook = MountedTonePlayer

Play ==
    \E freq \in ToneFreqs :
        /\ hook.mounted
        /\ Len(hook.tones) < MaxTones
        /\ Becomes([play(hook, freq) EXCEPT !.stopped = FALSE, !.last = <<"play", freq>>])

Stop ==
    /\ hook.mounted
    /\ Becomes([stop(hook) EXCEPT !.stopped = TRUE, !.last = <<"stop">>])

OscillatorEnded ==
    \E n \in 1..Len(hook.tones) :
        /\ \/ hook.tones[n].oscillator = "stopping"
           \/ /\ hook.tones[n].oscillator = "running"
              /\ \A k \in 1..Len(hook.tones) : hook.tones[k].oscillator # "stopping"
        /\ Becomes([onended(hook, n) EXCEPT !.last = <<"ended", n>>])

SafetyTimeout ==
    \E n \in hook.timeouts :
        /\ hook.tones[n].oscillator = "ended"
        /\ Becomes([safetyTimeout(hook, n) EXCEPT !.last = <<"timeout", n>>])

Unmount ==
    /\ hook.mounted
    /\ Becomes([unmount(hook) EXCEPT !.stopped = TRUE, !.last = <<"unmount">>])

TonePlayerNext ==
    \/ Play
    \/ Stop
    \/ OscillatorEnded
    \/ SafetyTimeout
    \/ Unmount

SpecTonePlayer == TonePlayerInit /\ [][TonePlayerNext]_vars

----------------------------------------------------------------------------
(* Reference definitions used by the properties                            *)

RECURSIVE SumInt(_, _, _)
SumInt(f(_), lo, hi) == IF lo > hi THEN 0 ELSE f(lo) + SumInt(f, lo + 1, hi)

\* the linear convolution of two integer sequences by the defining sum
DirectConv(a, b) ==
    IF Len(a) = 0 \/ Len(b) = 0 THEN <<>>
    ELSE [k \in 1..(Len(a) + Len(b) - 1) |->
            LET term(i) == IF k - i + 1 >= 1 /\ k - i + 1 <= Len(b)
                           THEN a[i] * b[k - i + 1] ELSE 0
            IN  SumInt(term, 1, Len(a))]

RECURSIVE SumNum(_, _, _)
SumNum(f(_), lo, hi) == IF lo > hi THEN Zero ELSE Add(f(lo), SumNum(f, lo + 1, hi))

\* sum over n of |x[n]|^2 for the complex sequence (r, m)
Energy(r, m) ==
    LET term(i) == Add(Mul(r[i], r[i]), Mul(m[i], m[i]))
    IN  SumNum(term, 1, Len(r))

----------------------------------------------------------------------------
(* C1  convolve(a, b) is the linear convolution: length len(a)+len(b)-1    *)
(* with sample k the sum of a[i]*b[k-i] and no wrapped-around term, empty  *)
(* when an input is empty; convolve([1,2,3],[4,5]) = [4,13,22,15]; and     *)
(* convolving with [1,0,0] gives the other signal followed by zeros.       *)
C1_ConvolveIsLinear ==
    pc = "convolve" =>
        /\ out.value = Ints(DirectConv(in.a, in.b))
        /\ (Len(in.a) = 0 \/ Len(in.b) = 0) => out.value = <<>>
        /\ (Len(in.a) > 0 /\ Len(in.b) > 0) => Len(out.value) = Len(in.a) + Len(in.b) - 1
        /\ (in.a = <<1, 2, 3>> /\ in.b = <<4, 5>>) => out.value = Ints(<<4, 13, 22, 15>>)
        /\ (Len(in.a) > 0 /\ in.b = <<1, 0, 0>>) => out.value = Ints(in.a \o <<0, 0>>)

\* a product longer than the longer input, whose last sample a circular
\* convolution of that size would have folded onto the first ones
C1_Witness ==
    /\ pc = "convolve"
    /\ Len(in.a) = 3
    /\ Len(in.b) = 3
    /\ out.value[5] # Zero
    /\ out.value[1] # Zero

\* the properties of extractImpulseResponse that hold of every call
ExtractFrame(rawPeakDivides) ==
    pc = "extract" =>
        LET raw == DirectConv(in.a, in.b)
            r   == out.value
            cap == in.maxLengthSamples
            abs(i) == AbsInt(raw[i + 1])
            pk  == r.peakIndex
        IN  /\ Len(raw) = 0 => (pk = 0 /\ IsNaN(r.rawPeak))
            /\ Len(raw) > 0 =>
                  /\ pk \in 0..(Len(raw) - 1)
                  /\ \A j \in 0..(Len(raw) - 1) : abs(j) <= abs(pk)
                  /\ \A j \in 0..(pk - 1) : abs(j) < abs(pk)
                  /\ r.rawPeak = Num(abs(pk))
            /\ Len(r.ir) = IF cap # NoCap THEN Min(cap[1], Len(raw) - pk) ELSE Len(raw) - pk
            /\ cap # NoCap => Len(r.ir) <= cap[1]
            /\ \A i \in 1..Len(r.ir) :
                  r.ir[i] = IF rawPeakDivides \/ Gt(r.rawPeak, Zero)
                            THEN Div(Num(raw[pk + i]), r.rawPeak)
                            ELSE Num(raw[pk + i])

C3_AsStated ==
    pc = "extract" =>
        LET r == out.value
        IN  /\ Gt(r.rawPeak, Zero) =>
                  /\ Len(r.ir) >= 1
                  /\ MathAbs(r.ir[1]) = One
                  /\ \A i \in 1..Len(r.ir) : Le(MathAbs(r.ir[i]), One)
            /\ r.rawPeak = Zero => \A i \in 1..Len(r.ir) : r.ir[i] = Zero

(* C3  if rawPeak > 0 and ir is not empty (maxLengthSamples absent or at   *)
(* least 1) the largest |ir[i]| is 1 and ir[0] attains it; if rawPeak is 0 *)
(* every sample of ir is 0.                                                *)
C3_PeakNormalised ==
    pc = "extract" =>
        LET r == out.value
        IN  /\ (Gt(r.rawPeak, Zero) /\ Len(r.ir) >= 1) =>
                  /\ MathAbs(r.ir[1]) = One
                  /\ \A i \in 1..Len(r.ir) : Le(MathAbs(r.ir[i]), One)
            /\ r.rawPeak = Zero => \A i \in 1..Len(r.ir) : r.ir[i] = Zero

\* a normalised response with a negative peak and a smaller later sample
C3_Witness ==
    /\ pc = "extract"
    /\ Len(out.value.ir) >= 2
    /\ Gt(out.value.rawPeak, One)
    /\ out.value.ir[1] = Num(-1)
    /\ Lt(Zero, out.value.ir[2]) /\ Lt(out.value.ir[2], One)

(* C4  fft followed by ifft on the same buffers restores re and im, and    *)
(* after fft the sum of |X[k]|^2 is N times the sum of |x[n]|^2.           *)
C4_RoundTripAndParseval ==
    /\ pc = <<"fft", "ifft">> => (re = in.re /\ im = in.im)
    /\ (pc = <<"fft">> /\ out.kind = "return") =>
          Energy(re, im) = Mul(Num(Len(re)), Energy(in.re, in.im))

\* a length-8 buffer pair with a non-zero imaginary part, transformed and
\* restored
C4_Witness ==
    /\ pc = <<"fft", "ifft">>
    /\ Len(re) = 8
    /\ \E i \in 1..8 : in.im[i] # Zero
    /\ \E i \in 2..8 : in.re[i] # Zero

(* C5  for every n from 0 up to the largest 32-bit integer the call        *)
(* terminates, returning 1 when n <= 1 and otherwise the smallest power of *)
(* two >= n.                                                               *)
C5_TerminatesWithNextPowerOfTwo ==
    <>(/\ pc = "done"
       /\ IF in.n <= 1 THEN out.value = 1
          ELSE /\ out.value >= in.n
               /\ out.value \div 2 < in.n
               /\ \E k \in 0..30 : out.value = 2 ^ k)

(* C6  fft on two buffers of length 0, or two of length 1, returns without *)
(* an error and leaves both buffers as they were.                          *)
C6_TinyLengthsAreNoOps ==
    (pc = <<"fft">> /\ Len(in.re) = Len(in.im) /\ Len(in.re) <= 1) =>
        /\ out.kind = "return"
        /\ re = in.re
        /\ im = in.im

\* the message naming the first violated sweep-parameter constraint, in the
\* order fStart <= 0, fEnd <= fStart, durationSec <= 0, sampleRate <= 0,
\* fEnd > sampleRate / 2; "" when none is violated
FirstViolated ==
    CASE jsLe(in.fStart, Fin(Zero)) -> "fStart must be > 0"
      [] ~jsLe(in.fStart, Fin(Zero)) /\ jsLe(in.fEnd, in.fStart) -> "fEnd must be > fStart"
      [] ~jsLe(in.fStart, Fin(Zero)) /\ ~jsLe(in.fEnd, in.fStart)
            /\ jsLe(in.durationSec, Fin(Zero)) -> "durationSec must be > 0"
      [] ~jsLe(in.fStart, Fin(Zero)) /\ ~jsLe(in.fEnd, in.fStart)
            /\ ~jsLe(in.durationSec, Fin(Zero))
            /\ jsLe(in.sampleRate, Fin(Zero)) -> "sampleRate must be > 0"
      [] ~jsLe(in.fStart, Fin(Zero)) /\ ~jsLe(in.fEnd, in.fStart)
            /\ ~jsLe(in.durationSec, Fin(Zero))
            /\ ~jsLe(in.sampleRate, Fin(Zero))
            /\ jsLt(in.sampleRate, jsMul(Fin(Num(2)), in.fEnd))
            -> "fEnd must be <= sampleRate / 2 (Nyquist)"
      [] OTHER -> ""

\* durationSec * sampleRate is +Infinity: no buffer of that many samples
SampleCountInfinite == jsMul(in.durationSec, in.sampleRate) = Infinity

DataLines == {i \in 1..Len(in.lines) : in.lines[i].is # "skip"}

PointLines == {i \in 1..Len(in.lines) : in.lines[i].is = "point"}

MalformedLines == DataLines \ PointLines

(* C8  whenever parseCalibrationFile returns, the result holds exactly one *)
(* point per data line (the point the line states), sorted ascending by    *)
(* frequency, at least 2 of them, every freq finite and > 0, every db      *)
(* finite, and the filename unchanged, with LF and with CRLF line breaks.  *)
C8_ParsedPoints ==
    (pc = "parsed" /\ out.kind = "return") =>
        LET pts == out.value.points
        IN  /\ Len(pts) = Cardinality(DataLines)
            /\ \A i \in PointLines :
                  \E k \in 1..Len(pts) :
                      pts[k] = [freq |-> in.lines[i].freq, db |-> in.lines[i].db]
            /\ \A i \in 1..Len(pts), j \in 1..Len(pts) :
                  i < j => Le(pts[i].freq, pts[j].freq)
            /\ Len(pts) >= 2
            /\ \A i \in 1..Len(pts) :
                  /\ ~IsNaN(pts[i].freq)
                  /\ Gt(pts[i].freq, Zero)
                  /\ ~IsNaN(pts[i].db)
            /\ out.value.filename = in.filename

\* a CRLF text of a comment and two point lines in descending frequency,
\* parsed into two points
C8_Witness ==
    /\ pc = "parsed"
    /\ out.kind = "return"
    /\ in.eol = CRLF
    /\ in.filename = "mic.txt"
    /\ Len(in.lines) = 3
    /\ in.lines[1].is = "skip"
    /\ PointLines = {2, 3}
    /\ Gt(in.lines[2].freq, in.lines[3].freq)
    /\ out.value.points[1].db = in.lines[3].db

\* what the error says of a malformed line
Complaint(is) ==
    CASE is = "few tokens" -> "expected freq dB"
      [] is = "bad frequency" -> "invalid frequency"
      [] is = "bad dB" -> "invalid dB value"

(* C9  parseCalibrationFile fails on the first data line, in file order,   *)
(* that has fewer than 2 tokens, or whose frequency token is not a finite  *)
(* number > 0, or whose dB token is not a finite number, and the error     *)
(* cites that line's 1-based number counted over all lines; if no data     *)
(* line is malformed but fewer than 2 points were read it fails with the   *)
(* at-least-2-data-points error.                                           *)
C9_FailsOnFirstMalformedLine ==
    pc = "parsed" =>
        IF MalformedLines # {}
        THEN LET first == CHOOSE i \in MalformedLines : \A j \in MalformedLines : i <= j
             IN  /\ out.kind = "throw"
                 /\ out.message.line = first
                 /\ out.message.text = Complaint(in.lines[first].is)
        ELSE Cardinality(PointLines) < 2 => out = TooFewPoints

\* the exponent k of a grid frequency 10^k
ExponentOf(f) == CHOOSE k \in 0..(MaxExp + 1) : f = Num(10 ^ k)

\* v lies on the straight line, over log10(frequency), through the points a
\* and b, at the frequency f
OnLogLine(v, a, b, f) ==
    Mul(Sub(v, a.db), Num(ExponentOf(b.freq) - ExponentOf(a.freq)))
        = Mul(Sub(b.db, a.db), Num(ExponentOf(f) - ExponentOf(a.freq)))

C11_AppliedCalibration ==
    pc = "applied" =>
        LET points == in.heap[in.points]
            cal    == in.heap[in.calibration.points]
            result == heap[out.value]
        IN  /\ Len(result) = Len(points)
            /\ \A i \in 1..Len(points) :
                  /\ result[i].freq = points[i].freq
                  /\ result[i].db =
                        Add(points[i].db,
                            interpolateCalibration(cal, freqsOf(points))[i])
            /\ heap[in.points] = points
            /\ heap[in.calibration.points] = cal
            /\ (Len(points) = 0 \/ Len(cal) = 0) => out.value = in.points

\* a two-point response corrected into a new array, the second point by an
\* interpolated amount
C11_Witness ==
    /\ pc = "applied"
    /\ Len(in.heap[1]) = 2
    /\ Len(in.heap[2]) >= 2
    /\ out.value = 3
    /\ heap[3][1].db # heap[1][1].db
    /\ heap[3][2].db[3] # 1

\* the octave k of a frequency 2^k
OctaveOf(f) == CHOOSE k \in 0..(MaxOct + 1) : f = Num(2 ^ k)

\* point j lies within fractionOfOctave / 2 octaves of point i
WithinWindow(points, i, j, fractionOfOctave) ==
    \/ fractionOfOctave = Infinity
    \/ Le(Num(2 * AbsInt(OctaveOf(points[j].freq) - OctaveOf(points[i].freq))),
          fractionOfOctave.v)

(* C12  for points sorted ascending by frequency and fractionOfOctave > 0, *)
(* smoothFrequencyResponse returns a sequence of the same length whose     *)
(* element i keeps points[i].freq and has db equal to the arithmetic mean  *)
(* of points[j].db over exactly those j with |log2(freq_j) - log2(freq_i)| *)
(* <= fractionOfOctave/2; that set contains i, and a response with one dB  *)
(* at every point is returned with that dB at every point.                 *)
C12_WindowMean ==
    (pc = "smoothed" /\ jsGt(in.fractionOfOctave, Fin(Zero))) =>
        LET points == in.heap[in.points]
            result == heap[out.value]
            window(i) == {j \in 1..Len(points) :
                             WithinWindow(points, i, j, in.fractionOfOctave)}
        IN  /\ Len(result) = Len(points)
            /\ \A i \in 1..Len(points) :
                  LET term(j) == IF j \in window(i) THEN points[j].db ELSE Zero
                  IN  /\ result[i].freq = points[i].freq
                      /\ i \in window(i)
                      /\ ~IsNaN(result[i].db)
                      /\ Mul(result[i].db, Num(Cardinality(window(i))))
                            = SumNum(term, 1, Len(points))
            /\ (\A i \in 1..Len(points) : points[i].db = points[1].db) =>
                  \A i \in 1..Len(points) : result[i].db = points[1].db

\* four points an octave apart smoothed over two octaves: the first window
\* ends exactly on the second point, and its mean is no input dB
C12_Witness ==
    /\ pc = "smoothed"
    /\ in.fractionOfOctave = Fin(Num(2))
    /\ Len(in.heap[1]) = 4
    /\ \A i \in 1..4 : in.heap[1][i].freq = Num(2 ^ (i - 1))
    /\ out.value = 2
    /\ heap[2][1].db[3] = 2
    /\ heap[2][4].db = in.heap[1][4].db

(* C13  smoothFrequencyResponse returns the very same sequence object it   *)
(* was given, with no element changed, whenever fractionOfOctave is        *)
(* undefined, 0 or negative, or points is empty.                           *)
C13_NoOpReturnsInput ==
    (/\ pc = "smoothed"
     /\ \/ in.fractionOfOctave = Undefined
        \/ in.fractionOfOctave = Fin(Zero)
        \/ jsLt(in.fractionOfOctave, Fin(Zero))
        \/ Len(in.heap[in.points]) = 0) =>
        /\ out.value = in.points
        /\ heap = in.heap

\* an empty response given with a positive width
C13_Witness ==
    /\ pc = "smoothed"
    /\ in.fractionOfOctave = Fin(Q(1, 0, 3))
    /\ in.heap[in.points] = <<>>
    /\ out.value = in.points

----------------------------------------------------------------------------
(* Peak detection                                                          *)

\* the options detectPeaks works with
MinProminenceOf(options) == optionOr(options.minProminence, Num(DefaultMinProminence))
MaxPeaksOf(options) == optionOr(options.maxPeaks, DefaultMaxPeaks)
BandsOf(options) == optionOr(options.bands, DEFAULT_BANDS)

\* the least of a non-empty set of numbers
Lowest(S) == CHOOSE m \in S : \A x \in S : Le(m, x)

\* zero-based index i is an interior point strictly above both neighbours
StrictLocalMax(points, i) ==
    /\ i >= 1
    /\ i <= Len(points) - 2
    /\ Gt(At(points, i).db, At(points, i - 1).db)
    /\ Gt(At(points, i).db, At(points, i + 1).db)

\* where the outward scans from i stop: the nearest strictly higher point
\* on that side, or the edge
LeftStop(points, i) ==
    LET higher == {j \in 0..(i - 1) : Gt(At(points, j).db, At(points, i).db)}
    IN  IF higher = {} THEN 0 ELSE CHOOSE j \in higher : \A k \in higher : k <= j

RightStop(points, i) ==
    LET higher == {j \in (i + 1)..(Len(points) - 1) :
                       Gt(At(points, j).db, At(points, i).db)}
    IN  IF higher = {} THEN Len(points) - 1
        ELSE CHOOSE j \in higher : \A k \in higher : j <= k

ProminenceAt(points, i) ==
    LET leftValley == Lowest({At(points, j).db : j \in LeftStop(points, i)..i})
        rightValley == Lowest({At(points, j).db : j \in i..RightStop(points, i)})
    IN  Sub(At(points, i).db,
            IF Lt(leftValley, rightValley) THEN rightValley ELSE leftValley)

Qualifying(points, minProminence) ==
    {i \in 0..(Len(points) - 1) :
        /\ StrictLocalMax(points, i)
        /\ Ge(ProminenceAt(points, i), minProminence)}

(* C14  Every peak detectPeaks returns is an interior strict local maximum *)
(* of the dB values, carries the freq and db of its point and the          *)
(* prominence db - max(leftValley, rightValley) with the valleys the       *)
(* minima of the outward scans up to the first strictly higher point or    *)
(* the edge, and that prominence is at least minProminence; when no more   *)
(* than maxPeaks points qualify, each of them is returned exactly once.    *)
C14_ReturnedPeaks ==
    pc = "detected" =>
        LET points == in.points
            peaks == out.value
        IN  /\ \A k \in 1..Len(peaks) :
                  /\ StrictLocalMax(points, peaks[k].index)
                  /\ peaks[k].freq = At(points, peaks[k].index).freq
                  /\ peaks[k].db = At(points, peaks[k].index).db
                  /\ peaks[k].prominence = ProminenceAt(points, peaks[k].index)
                  /\ Ge(peaks[k].prominence, MinProminenceOf(in.options))
            /\ Cardinality(Qualifying(points, MinProminenceOf(in.options)))
                  <= MaxPeaksOf(in.options) =>
                  \A i \in Qualifying(points, MinProminenceOf(in.options)) :
                      Cardinality({k \in 1..Len(peaks) : peaks[k].index = i}) = 1

\* two equally high peaks on one response: each is bounded by the higher
\* of its two valleys, not by the lower one
C14_Witness ==
    /\ pc = "detected"
    /\ Len(in.points) = 5
    /\ [i \in 1..5 |-> in.points[i].db] = <<Num(0), Num(4), Num(1), Num(4), Num(1)>>
    /\ in.options.minProminence = <<Num(1)>>
    /\ in.options.maxPeaks = <<>>
    /\ Len(out.value) = 2
    /\ out.value[1].index = 1
    /\ out.value[1].prominence = Num(3)

\* the zero-based indices of the returned peaks
ReturnedIndices == {out.value[k].index : k \in 1..Len(out.value)}

NonIncreasingProminence ==
    \A k \in 1..(Len(out.value) - 1) :
        Ge(out.value[k].prominence, out.value[k + 1].prominence)

\* no qualifying peak that was left out is strictly more prominent than a
\* returned one
MostProminentReturned ==
    \A i \in Qualifying(in.points, MinProminenceOf(in.options)) \ ReturnedIndices :
        \A k \in 1..Len(out.value) :
            ~Gt(ProminenceAt(in.points, i), out.value[k].prominence)

Containing(freq, bands) ==
    {b \in 1..Len(bands) : Le(bands[b].minHz, freq) /\ Lt(freq, bands[b].maxHz)}

\* the band of freq: the label of the first band containing it, or null
FirstBand(freq, bands) ==
    IF Containing(freq, bands) = {} THEN Null
    ELSE <<bands[CHOOSE b \in Containing(freq, bands) :
                     \A c \in Containing(freq, bands) : b <= c].label>>

(* C16  The band of each detected peak is the label of the first band, in  *)
(* list order, with minHz <= freq < maxHz, and null when no band contains  *)
(* freq; with the default bands a peak in [20, 300) is 'Room modes', one   *)
(* in [300, 15000) is 'Mid / High', and one below 20 Hz or at or above     *)
(* 15000 Hz has band null.                                                 *)
C16_BandOfPeak ==
    pc = "detected" =>
        \A k \in 1..Len(out.value) :
            LET freq == out.value[k].freq
                band == out.value[k].band
            IN  /\ band = FirstBand(freq, BandsOf(in.options))
                /\ in.options.bands = <<>> =>
                      /\ Le(Num(20), freq) /\ Lt(freq, Num(300)) =>
                            band = <<"Room modes">>
                      /\ Le(Num(300), freq) /\ Lt(freq, Num(15000)) =>
                            band = <<"Mid / High">>
                      /\ Lt(freq, Num(20)) \/ Ge(freq, Num(15000)) => band = Null

\* peaks at exactly 300 Hz and at exactly 15000 Hz with the default bands
C16_Witness ==
    /\ pc = "detected"
    /\ in.options = NoOptions
    /\ Len(out.value) = 2
    /\ out.value[1].freq = Num(300)
    /\ out.value[1].band = <<"Mid / High">>
    /\ out.value[2].freq = Num(15000)
    /\ out.value[2].band = Null

----------------------------------------------------------------------------
(* RT60 estimation                                                         *)

\* a result was returned by estimateRT60
Estimated == pc = "estimated" /\ out.value # Null

(* C17  Every result estimateRT60 returns has 0 < rt60 <= 30, t20 = rt60,  *)
(* an edcDb with as many samples as ir, and a t30 that is null or          *)
(* positive: a fit whose rt60 is not in that range is never reported.      *)
C17_PlausibleResult ==
    Estimated =>
        /\ jsLt(Fin(Zero), out.value.rt60)
        /\ jsLe(out.value.rt60, Fin(Num(30)))
        /\ out.value.t20 = out.value.rt60
        /\ Len(out.value.edcDb) = Len(in.ir)
        /\ out.value.t30 = Null \/ jsLt(Fin(Zero), out.value.t30)

\* where C17 fails: the property holds of every call with a finite sample
\* rate other than 0, and with the sample rate 0 or NaN every result has
\* the rt60 NaN
C17_FiniteSampleRate ==
    Estimated =>
        IF in.sampleRate.k = "fin" /\ in.sampleRate.v # Zero
        THEN /\ jsLt(Fin(Zero), out.value.rt60)
             /\ jsLe(out.value.rt60, Fin(Num(30)))
             /\ out.value.t20 = out.value.rt60
             /\ Len(out.value.edcDb) = Len(in.ir)
             /\ out.value.t30 = Null \/ jsLt(Fin(Zero), out.value.t30)
        ELSE out.value.rt60 = NotANumber

\* a decay of 10 dB per sample analysed with the sample rate 0
C17_NaNReported ==
    /\ Estimated
    /\ in.sampleRate = Fin(Zero)
    /\ out.value.edcDb = <<Num(0), Num(-10), Num(-20), Num(-30)>>
    /\ out.value.rt60 = NotANumber

\* the impulse response has non-zero energy
NonZeroEnergy == \E i \in 1..Len(in.ir) : in.ir[i].square # ZeroEnergy

\* 0 dB at index 0, and no sample above the one before it
StartsAtZeroAndFalls(edcDb) ==
    /\ edcDb[1] = Zero
    /\ \A i \in 1..(Len(edcDb) - 1) : Le(edcDb[i + 1], edcDb[i])

(* C18  For every impulse response with non-zero energy the decay curve in *)
(* dB, as returned by computeEDC and as the field edcDb of a result of     *)
(* estimateRT60, is 0 dB at index 0 and non-increasing in the sample       *)
(* index, trailing zero samples and the -120 dB clamp included.            *)
C18_DecayCurveNonIncreasing ==
    /\ pc = "edc" /\ NonZeroEnergy => StartsAtZeroAndFalls(out.value)
    /\ Estimated => StartsAtZeroAndFalls(out.value.edcDb)

\* a sample 130 dB below the first, then a zero sample: the curve falls to
\* -130 dB and rises to the -120 dB of the clamp
C18_RisesToFloor ==
    /\ pc = "edc"
    /\ Len(in.ir) = 3
    /\ in.ir[3].square = ZeroEnergy
    /\ out.value = <<Num(0), Num(-130), Num(-120)>>

\* where C18 fails: the curve is 0 dB at index 0 and non-increasing
\* whenever no sample with a ratio below 10^-12 is followed by one with
\* the ratio 0
C18_FallsAboveFloor ==
    LET curve == IF pc = "edc" THEN out.value ELSE out.value.edcDb
    IN  ((pc = "edc" /\ NonZeroEnergy) \/ Estimated) =>
            \/ StartsAtZeroAndFalls(curve)
            \/ \E i \in 1..(Len(curve) - 1) :
                  /\ Lt(curve[i], Num(-120))
                  /\ in.ir[i + 1].square = ZeroEnergy
                  /\ curve[Len(curve)] = Num(-120)

----------------------------------------------------------------------------
(* Frequency response                                                      *)

\* a call with a non-empty signal and numPoints >= 1 has returned
Measured == pc = "measured" /\ Len(in.signal) > 0 /\ in.numPoints >= 1

\* the transform length of the call
TransformLength == nextPowerOfTwo(Len(in.signal))

\* numPoints points with finite ascending frequencies from first to last,
\* finite levels, and every index read an integer in 0..N/2
AxisFromTo(first, last) ==
    /\ Len(out.value) = in.numPoints
    /\ \A i \in 1..Len(out.value) :
          /\ out.value[i].freq.k = "fin"
          /\ isFiniteNumber(out.value[i].db)
          /\ out.value[i].db.k = "db" => Gt(out.value[i].db.v, Zero)
          /\ out.value[i].db.k = "fin" => out.value[i].db = Fin(Num(-120))
    /\ \A i \in 1..(Len(out.value) - 1) :
          jsLe(out.value[i].freq, out.value[i + 1].freq)
    /\ out.value[1].freq = first
    /\ out.value[Len(out.value)].freq = last
    /\ \A index \in out.reads :
          /\ index.k = "fin"
          /\ index.v[2] = 0 /\ index.v[3] = 1
          /\ index.v[1] >= 0
          /\ 2 * index.v[1] <= TransformLength

(* C20  For a non-empty signal and every numPoints >= 1,                   *)
(* computeMagnitudeResponse returns exactly numPoints points whose         *)
(* frequencies are finite and ascending, the first equal to fMin and the   *)
(* last equal to min(fMax, sampleRate/2), and whose db values are all      *)
(* finite, -120 where the magnitude is 0; every index it reads of the      *)
(* magnitudes of the transform lies in 0..N/2.                             *)
C20_AxisAndLevels ==
    Measured =>
        AxisFromTo(in.fMin, jsMin(in.fMax, jsDiv(in.sampleRate, Fin(Num(2)))))

\* one point asked for: its frequency is NaN, its level the clamp value,
\* and the index read is NaN
C20_SinglePointNaN ==
    /\ Measured
    /\ in.numPoints = 1
    /\ in.fMin = Fin(Num(10))
    /\ in.fMax = Fin(Num(1000))
    /\ out.value = <<FrequencyPoint(NotANumber, Fin(Num(-120)))>>
    /\ NotANumber \in out.reads

\* where C20 fails: with two or more points the property holds with
\* max(fMin, 1) as the first frequency, and with one point the frequency is
\* NaN
C20_TwoOrMorePoints ==
    Measured =>
        IF in.numPoints >= 2
        THEN AxisFromTo(jsMax(in.fMin, Fin(One)),
                        jsMin(in.fMax, jsDiv(in.sampleRate, Fin(Num(2)))))
        ELSE out.value[1].freq = NotANumber

----------------------------------------------------------------------------
(* Analyses without a result                                               *)

\* the indices at which the curve is at or below the level
AtOrBelow(edcDb, level) == {i \in 0..(Len(edcDb) - 1) : Le(At(edcDb, i), level)}

\* the curve has a window for the T20 fit: it reaches -5 dB, reaches -25 dB
\* there or later, and the samples from the first to the second are 3 or
\* more
HasFitWindow(edcDb) ==
    \E s \in AtOrBelow(edcDb, Num(-5)) :
        /\ \A i \in AtOrBelow(edcDb, Num(-5)) : s <= i
        /\ \E e \in AtOrBelow(edcDb, Num(-25)) :
              /\ e >= s
              /\ \A i \in AtOrBelow(edcDb, Num(-25)) : i >= s => e <= i
              /\ e - s + 1 >= 3

ReturnedValue(value) == out = [kind |-> "return", value |-> value]

(* C19  The analyses return their non-results as values and raise nothing: *)
(* estimateRT60 returns null for an impulse response of fewer than 2       *)
(* samples, of zero energy, or without a -5..-25 dB fit window;            *)
(* detectPeaks returns an empty sequence for fewer than 3 points or when   *)
(* no maximum reaches minProminence; convolve returns an empty buffer when *)
(* either input is empty; computeMagnitudeResponse returns an empty        *)
(* sequence for an empty signal or numPoints <= 0.                         *)
C19_NonResultsAreValues ==
    /\ (/\ pc = "estimated"
        /\ \/ Len(in.ir) < 2
           \/ ~NonZeroEnergy
           \/ ~HasFitWindow(computeEDC(in.ir))) => ReturnedValue(Null)
    /\ (/\ pc = "detected"
        /\ \/ Len(in.points) < 3
           \/ Qualifying(in.points, MinProminenceOf(in.options)) = {}) =>
          ReturnedValue(<<>>)
    /\ (pc = "convolve" /\ (Len(in.a) = 0 \/ Len(in.b) = 0)) => ReturnedValue(<<>>)
    /\ (pc = "measured" /\ (Len(in.signal) = 0 \/ in.numPoints <= 0)) =>
          out.kind = "return" /\ out.value = <<>>

\* an impulse response with energy that falls by 10 dB once and stays
\* there: it reaches -5 dB but never -25 dB, and the estimate is null
C19_Witness ==
    /\ pc = "estimated"
    /\ computeEDC(in.ir) = <<Num(0), Num(-10), Num(-10), Num(-10)>>
    /\ in.sampleRate = Fin(Num(1))
    /\ out.value = Null

----------------------------------------------------------------------------
\* computeWaterfall has returned a WaterfallData
WaterfallReturned == pc = "waterfall" /\ out.kind = "return"

\* round(windowSec * sampleRate), the length of the requested window
RequestedWindow == MathRound(jsMul(in.options.windowSec, in.sampleRate)).v[1]

(* C21, as stated  computeWaterfall returns exactly numSlices slices        *)
(* whenever the IR has at least round(windowSec*sampleRate) samples, and    *)
(* fewer than numSlices only when the IR is shorter than that window.       *)
C21_SlicesUnlessShort ==
    WaterfallReturned =>
        /\ Len(in.ir) >= RequestedWindow => Len(out.slices) = in.options.numSlices
        /\ Len(out.slices) < in.options.numSlices => Len(in.ir) < RequestedWindow

\* a non-empty IR exactly as long as the window, and fewer slices than
\* asked for
C21_FewerOnFullWindow ==
    /\ WaterfallReturned
    /\ Len(in.ir) > 0
    /\ Len(in.ir) = RequestedWindow
    /\ Len(out.slices) < in.options.numSlices

\* what does hold: an IR longer than a window of zero or more samples
\* yields numSlices slices, and there are never more than numSlices
C21_LongerThanWindow ==
    WaterfallReturned =>
        /\ Len(out.slices) <= in.options.numSlices
        /\ (RequestedWindow >= 0 /\ Len(in.ir) > RequestedWindow)
               => Len(out.slices) = in.options.numSlices

\* totalSamples of the call
TotalSamples == totalSamplesOf(in.ir, in.sampleRate, in.options.windowSec)

TimesStrictlyIncrease ==
    \A k \in 1..(Len(out.slices) - 1) :
        jsLt(out.slices[k].timeSec, out.slices[k + 1].timeSec)

TimesNeverDecrease ==
    \A k \in 1..(Len(out.slices) - 1) :
        jsLe(out.slices[k].timeSec, out.slices[k + 1].timeSec)

\* slice s starts at sample round(s * totalSamples / numSlices)
StartsAtRoundedOffsets ==
    \A k \in 1..Len(out.slices) :
        out.slices[k].timeSec =
            jsDiv(MathRound(Fin(Q((k - 1) * TotalSamples, 0, in.options.numSlices))),
                  in.sampleRate)

EverySliceFull ==
    \A k \in 1..Len(out.slices) :
        Len(out.slices[k].magnitudeDb) = in.options.numFreqPoints

C22_RepeatedTime ==
    /\ WaterfallReturned
    /\ in.options.numSlices > TotalSamples
    /\ \E k \in 1..(Len(out.slices) - 1) :
           out.slices[k].timeSec = out.slices[k + 1].timeSec

----------------------------------------------------------------------------
\* extractImpulseResponse has returned
Extracted == pc = "extract" /\ out.kind = "return"

NoNaNInResult ==
    /\ ~IsNaN(out.value.rawPeak)
    /\ \A i \in 1..Len(out.value.ir) : ~IsNaN(out.value.ir[i])

(* C23, as stated  no field of the result of extractImpulseResponse is NaN, *)
(* neither a sample of ir nor rawPeak, for any recording and inverse        *)
(* filter, an empty recording, an empty inverse filter and an all-zero      *)
(* recording included.                                                      *)
C23_NoNaN == Extracted => NoNaNInResult

\* an empty recording with a non-empty inverse filter: rawPeak is NaN
C23_EmptyRecordingNaN ==
    /\ Extracted
    /\ Len(in.a) = 0
    /\ Len(in.b) > 0
    /\ IsNaN(out.value.rawPeak)

\* what does hold: with both inputs non-empty nothing is NaN, an all-zero
\* recording included
C23_NonEmptyInputs ==
    (Extracted /\ Len(in.a) > 0 /\ Len(in.b) > 0) => NoNaNInResult

\* an all-zero recording: rawPeak is 0 and nothing is divided
C23_AllZeroRecording ==
    /\ Extracted
    /\ Len(in.a) = 2
    /\ \A i \in 1..Len(in.a) : in.a[i] = 0
    /\ Len(in.b) > 0
    /\ out.value.rawPeak = Zero
    /\ NoNaNInResult

----------------------------------------------------------------------------
\* a stage has run
StageRan == pc = "ran"

\* every array that was on the heap at the call holds what it held
InputsUntouched ==
    /\ Len(heap) >= Len(in.heap)
    /\ \A r \in 1..Len(in.heap) : heap[r] = in.heap[r]

\* the transform ran on arrays allocated inside the call only
TransformOnScratchOnly ==
    out.transformed \subseteq (Len(in.heap) + 1)..Len(heap)

(* C24  no pipeline stage modifies a buffer or sequence passed to it: after *)
(* a call of convolve, extractImpulseResponse, windowIR,                    *)
(* computeMagnitudeResponse, smoothFrequencyResponse, applyCalibration,     *)
(* detectPeaks, estimateRT60, computeEDC or computeWaterfall every input    *)
(* holds the values it held before the call, and the in-place FFT has run   *)
(* only on buffers allocated inside that call.                              *)
C24_InputsUntouched == StageRan => (InputsUntouched /\ TransformOnScratchOnly)

\* a waterfall of two slices: two transforms on scratch buffers, and an
\* impulse response with a non-zero sample left as it was
C24_Witness ==
    /\ StageRan
    /\ in.stage = "computeWaterfall"
    /\ out.value.kind = "return"
    /\ Len(heap[out.value.slices]) = 2
    /\ Cardinality(out.transformed) = 4
    /\ \E i \in 1..Len(in.heap[1]) : in.heap[1][i] # Zero
    /\ InputsUntouched

\* a fade of two samples was applied, and it went into a new array
C24_FadedCopy ==
    /\ StageRan
    /\ in.stage = "windowIR"
    /\ out.value = 2
    /\ heap[2] # heap[1]
    /\ Len(heap[2]) = Len(heap[1])
    /\ InputsUntouched

\* the stages on the heap return what the stages on values return
C24_SameResults ==
    StageRan =>
        /\ in.stage = "convolve" =>
              heap[out.value] = convolve(in.heap[1], in.heap[2])
        /\ in.stage = "extractImpulseResponse" =>
              [out.value EXCEPT !.ir = heap[out.value.ir]]
                  = extractImpulseResponse(in.heap[1], in.heap[2],
                                           in.call.maxLengthSamples)
        /\ in.stage = "computeMagnitudeResponse" =>
              heap[out.value] = computeMagnitudeResponse(in.heap[1], in.call.sampleRate,
                                                         in.call.fMin, in.call.fMax,
                                                         in.call.numPoints)
        /\ in.stage = "detectPeaks" =>
              heap[out.value] =
                  detectPeaks(in.heap[1],
                              IF in.call.options.bands = <<>> THEN in.call.options
                              ELSE [in.call.options EXCEPT !.bands = <<in.heap[2]>>])
        /\ in.stage = "estimateRT60" =>
              IF out.value = Null THEN estimateRT60(in.heap[1], in.call.sampleRate) = Null
              ELSE [out.value EXCEPT !.edcDb = heap[out.value.edcDb]]
                       = estimateRT60(in.heap[1], in.call.sampleRate)
        /\ in.stage = "computeEDC" => heap[out.value] = computeEDC(in.heap[1])
        /\ in.stage = "computeWaterfall" =>
              IF out.value.kind = "throw"
              THEN computeWaterfall(in.heap[1], in.call.sampleRate,
                                    in.call.options).kind = "throw"
              ELSE WaterfallData(slicesRead(heap, out.value.slices),
                                 heap[out.value.frequencies], out.value.maxDb)
                       = computeWaterfall(in.heap[1], in.call.sampleRate, in.call.options)

----------------------------------------------------------------------------
\* the drain callback of a run has just run, its deconvolution having thrown
DrainThrew ==
    /\ hook.kind = "useMeasurement"
    /\ Len(hook.last) = 3
    /\ hook.last[1] = "drain"
    /\ hook.last[3] = "throws"

\* the result holds the recorded buffer, its figures and the metadata
ResultFilledIn(r) ==
    /\ hook.result # Null
    /\ hook.result.buffer = hook.chunksRef
    /\ hook.result.rms = Applied("computeRms", hook.chunksRef)
    /\ hook.result.peak = Applied("detectClipping.peak", hook.chunksRef)
    /\ hook.result.clipped = Applied("detectClipping.clipped", hook.chunksRef)
    /\ hook.result.clippedSampleCount
           = Applied("detectClipping.clippedSampleCount", hook.chunksRef)
    /\ hook.result.meta.sampleRate = <<"sampleRate", r>>
    /\ hook.result.meta.startedAt = hook.startTimeRef
    /\ hook.result.meta.completedAt = <<"completed", r>>

\* teardown() has run: no interval, node or context is left in the refs
RefsCleared ==
    /\ hook.timerRef = Null
    /\ hook.levelTimerRef = Null
    /\ hook.workletNodeRef = Null
    /\ hook.sourceNodeRef = Null
    /\ hook.audioCtxRef = Null

\* the graph of run r is gone: its context is closed, its worklet stopped
\* and none of its intervals is running
TornDown(r) ==
    /\ hook.contexts[r] = "closed"
    /\ hook.worklets[r] = "stopped"
    /\ \A i \in hook.intervals : i[2] # r

C30_StaysIdleAfterReset ==
    (hook.kind = "useMeasurement" /\ hook.afterReset) =>
        /\ hook.state = "idle"
        /\ hook.result = Null
        /\ hook.chunksRef = <<>>

\* reset() during the pre-roll, and then the pre-roll timeout: 'playing'
C30_PlayingAfterReset ==
    /\ hook.kind = "useMeasurement"
    /\ hook.afterReset
    /\ hook.last = <<"preRoll", 1>>
    /\ hook.state = "playing"

\* reset() during the post-roll or the drain delay, and then the drain
\* timeout: a result is published and the state is 'done'
C30_ResultAfterReset ==
    /\ hook.kind = "useMeasurement"
    /\ hook.afterReset
    /\ hook.state = "done"
    /\ hook.result # Null

\* what does hold: reset() while the countdown interval of the first run
\* is ticking leaves no callback pending
C30_ResetInCountdown ==
    [][(hook.kind = "useMeasurement" /\ hook.state = "countdown" /\ hook.runs = 1
           /\ hook.awaiting = {} /\ hook'.last = <<"reset">>)
          => (hook'.intervals = {} /\ hook'.awaiting = {} /\ hook'.timeouts = {})]_vars

----------------------------------------------------------------------------
(* C26: the window of fitDecayRange and the t30 of estimateRT60            *)

\* the decay curve estimateRT60 hands to its fits
DecayCurveOf(ir) == edcDbOf(edcOf(energyOf(ir)), edcOf(energyOf(ir))[1])

\* the first index from `from` on at which the curve is at or below db,
\* or -1
FirstAtOrBelow(edcDb, db, from) ==
    IF \E i \in from..(Len(edcDb) - 1) : Le(At(edcDb, i), db)
    THEN CHOOSE i \in from..(Len(edcDb) - 1) :
             /\ Le(At(edcDb, i), db)
             /\ \A j \in from..(i - 1) : ~Le(At(edcDb, j), db)
    ELSE -1

StartIdxOf(edcDb, startDb) == FirstAtOrBelow(edcDb, startDb, 0)

EndIdxOf(edcDb, startDb, endDb) ==
    IF StartIdxOf(edcDb, startDb) < 0 THEN -1
    ELSE FirstAtOrBelow(edcDb, endDb, StartIdxOf(edcDb, startDb))

\* the decay rate of the least-squares line through the samples lo..hi
DecayRateOver(edcDb, sampleRate, lo, hi) ==
    jsNeg(slopeOf(hi - lo + 1, sumX(sampleRate, lo, hi), sumY(edcDb, lo, hi),
                  sumXY(edcDb, sampleRate, lo, hi),
                  denomOf(hi - lo + 1, sumX(sampleRate, lo, hi),
                          sumX2(sampleRate, lo, hi))))

\* what fitDecayRange returned is what the window lo..hi allows
FitOnWindow(fit, edcDb, sampleRate, lo, hi) ==
    /\ (lo < 0 \/ hi < 0 \/ hi = lo \/ hi - lo + 1 < 3) => fit = Null
    /\ fit # Null =>
          /\ fit.decayRateDbPerSec = DecayRateOver(edcDb, sampleRate, lo, hi)
          /\ ~jsLe(fit.decayRateDbPerSec, Fin(Zero))
    /\ (lo >= 0 /\ hi - lo + 1 >= 3
            /\ jsLe(DecayRateOver(edcDb, sampleRate, lo, hi), Fin(Zero))) => fit = Null

FitsOnItsWindow ==
    pc = "fitted" =>
        \A edcDb \in {DecayCurveOf(in.ir)} :
            FitOnWindow(out.value, edcDb, in.sampleRate,
                        StartIdxOf(edcDb, out.startDb),
                        EndIdxOf(edcDb, out.startDb, out.endDb))

\* the two fits of estimateRT60 on the call of the state
FitsOf(ir, sampleRate) ==
    {<<fitDecayRange(edcDb, sampleRate, Num(-5), Num(-25)),
       fitDecayRange(edcDb, sampleRate, Num(-5), Num(-35))>> :
        edcDb \in {DecayCurveOf(ir)}}

ResultWithoutT30 == out.value # Null /\ out.value.t30 = Null

(* C26 as stated: fitDecayRange fits on the span from the first index at   *)
(* or below startDb to the first index from there on at or below endDb,    *)
(* yields no fit when an index is missing, when the two are equal, when    *)
(* the span holds fewer than 3 samples or when the decay rate is not       *)
(* positive; and estimateRT60 returns a result with t30 = null exactly     *)
(* when the -5..-25 dB fit succeeds and the -5..-35 dB fit does not.       *)
C26_AsStated ==
    /\ FitsOnItsWindow
    /\ (pc = "estimated" /\ ReachesFits(in.ir)) =>
          \A fits \in FitsOf(in.ir, in.sampleRate) :
              ResultWithoutT30 <=> (fits[1] # Null /\ fits[2] = Null)

(* C26: fitDecayRange fits on the span from the first index at or below    *)
(* startDb to the first index from there on at or below endDb, and yields  *)
(* no fit when an index is missing, when the two are equal, when the span  *)
(* holds fewer than 3 samples or when the decay rate is not positive;      *)
(* estimateRT60 returns a result with t30 = null exactly when the          *)
(* -5..-25 dB fit succeeds with 60 / rate not above 30 s and the           *)
(* -5..-35 dB fit does not succeed.                                        *)
C26_FitsAndT30 ==
    /\ FitsOnItsWindow
    /\ (pc = "estimated" /\ ReachesFits(in.ir)) =>
          \A fits \in FitsOf(in.ir, in.sampleRate) :
              ResultWithoutT30 <=>
                  /\ fits[1] # Null
                  /\ fits[2] = Null
                  /\ ~jsGt(jsDiv(Fin(Num(60)), fits[1].decayRateDbPerSec),
                           Fin(Num(30)))

\* a result with t30 = null from a finite reverberation time
C26_Witness ==
    /\ pc = "estimated"
    /\ ReachesFits(in.ir)
    /\ ResultWithoutT30
    /\ out.value.rt60.k = "fin"

\* the -5..-25 dB fit succeeds, the -5..-35 dB fit does not, and the
\* reverberation time is above 30 s: no result
C26_SlowDecay ==
    /\ pc = "estimated"
    /\ ReachesFits(in.ir)
    /\ \E fits \in FitsOf(in.ir, in.sampleRate) : fits[1] # Null /\ fits[2] = Null
    /\ out.value = Null

----------------------------------------------------------------------------
(* C27: a transform that raises leaves its buffers as they were            *)

\* the buffers of the first call cannot be transformed
UnequalOrNotPowerOfTwo == Len(in.re) # Len(in.im) \/ ~isPowerOfTwo(Len(in.re))

FirstCallDone == Len(pc) = 1

(* C27: when fft or ifft is given buffers whose lengths differ or whose    *)
(* length is not a power of two, it raises a RangeError and both re and im *)
(* hold exactly the values they held before the call.                      *)
C27_ErrorLeavesBuffers ==
    (FirstCallDone /\ UnequalOrNotPowerOfTwo) =>
        /\ out.kind = "throw"
        /\ out.error = "RangeError"
        /\ re = in.re
        /\ im = in.im

\* ifft has raised and im is not what it was
C27_IfftNegatedIm ==
    /\ pc = <<"ifft">>
    /\ UnequalOrNotPowerOfTwo
    /\ out.kind = "throw"
    /\ re = in.re
    /\ im # in.im

\* fft keeps the claim, and ifft raises as well
C27_FftLeavesBuffers ==
    (FirstCallDone /\ UnequalOrNotPowerOfTwo) =>
        /\ out.kind = "throw"
        /\ out.error = "RangeError"
        /\ re = in.re
        /\ pc = <<"fft">> => im = in.im
        /\ pc = <<"ifft">> =>
              im = [i \in 1..Len(in.im) |->
                       IF i <= Len(in.re) THEN Neg(in.im[i]) ELSE in.im[i]]

----------------------------------------------------------------------------
(* C28: the binary search of interpolateCalibration                        *)

\* v lies between a and b, whichever is the larger
LiesBetween(v, a, b) ==
    \/ Le(a, v) /\ Le(v, b)
    \/ Le(b, v) /\ Le(v, a)

SortedAscending(calibration) ==
    \A j \in 1..(Len(calibration) - 1) : Le(calibration[j].freq, calibration[j + 1].freq)

StrictlyInside(f, calibration) ==
    /\ Len(calibration) > 0
    /\ Gt(f, calibration[1].freq)
    /\ Lt(f, calibration[Len(calibration)].freq)

\* the search on calibration `cal` for the target f ended with the 0-based
\* indices lo and hi and the callback returned v
SearchEndsWell(cal, f, lo, hi, v) ==
    /\ hi = lo + 1
    /\ 0 <= lo
    /\ hi <= Len(cal) - 1
    /\ Le(cal[lo + 1].freq, f)
    /\ Lt(f, cal[hi + 1].freq)
    /\ Gt(Sub(MathLog10(cal[hi + 1].freq), MathLog10(cal[lo + 1].freq)), Zero)
    /\ LiesBetween(v, cal[lo + 1].db, cal[hi + 1].db)

(* C28: for calibration points sorted ascending by frequency, equal        *)
(* frequencies allowed, and a target strictly between the lowest and the   *)
(* highest calibration frequency, the binary search ends with hi = lo + 1  *)
(* and freq[lo] <= target < freq[hi]; the denominator                      *)
(* log10(freq[hi]) - log10(freq[lo]) is strictly positive and the returned *)
(* correction lies between db[lo] and db[hi] inclusive.                    *)
C28_SearchBrackets ==
    /\ pc = "searched" =>
          /\ SortedAscending(in.calibration)
          /\ StrictlyInside(in.targetFreqs[out.target], in.calibration)
          /\ SearchEndsWell(in.calibration, in.targetFreqs[out.target],
                            out.lohi[1], out.lohi[2], out.value)
    /\ pc = "interpolated" =>
          \A i \in 1..Len(in.targetFreqs) :
              StrictlyInside(in.targetFreqs[i], in.calibration) =>
                  \E j \in 1..(Len(in.calibration) - 1) :
                      /\ Le(in.calibration[j].freq, in.targetFreqs[i])
                      /\ Lt(in.targetFreqs[i], in.calibration[j + 1].freq)
                      /\ LiesBetween(out.value[i], in.calibration[j].db,
                                     in.calibration[j + 1].db)

\* a search over four points, two of them at the frequency of the target,
\* that ends on the later of the two
C28_Witness ==
    /\ pc = "searched"
    /\ Len(in.calibration) = 4
    /\ in.calibration[2].freq = in.calibration[3].freq
    /\ in.targetFreqs[out.target] = in.calibration[3].freq
    /\ out.lohi = <<2, 3>>
    /\ out.value = in.calibration[3].db

\* a search whose value is strictly between the two corrections
C28_StrictlyBetween ==
    /\ pc = "searched"
    /\ out.value # in.calibration[out.lohi[1] + 1].db
    /\ out.value # in.calibration[out.lohi[2] + 1].db

----------------------------------------------------------------------------
(* C29: the state of useTonePlayer while a tone is sounding                *)

\* the tones that are sounding: started, not stopped and not ended
Sounding == {n \in 1..Len(hook.tones) : hook.tones[n].oscillator = "running"}

\* the tone of the most recent play() is sounding and stop() has not been
\* called since
LatestToneSounding ==
    /\ hook.kind = "useTonePlayer"
    /\ Len(hook.tones) \in Sounding
    /\ ~hook.stopped

ShowsLatestTone ==
    /\ hook.isPlaying
    /\ hook.playingFreq = <<hook.tones[Len(hook.tones)].freq>>

(* C29: for as long as the tone started by the most recent play(f) is      *)
(* sounding and stop() has not been called since, isPlaying is true and    *)
(* playingFreq equals f, also when that play(f) replaced an earlier tone   *)
(* whose 'ended' callback and safety timeout fire only afterwards; and a   *)
(* later stop() silences the tone that is sounding.                        *)
C29_ShowsSoundingTone ==
    /\ LatestToneSounding => ShowsLatestTone
    /\ (hook.kind = "useTonePlayer" /\ hook.last = <<"stop">>) => Sounding = {}

\* the second tone is sounding, no stop() was called since its play(), and
\* the 'ended' event of the tone it replaced has set isPlaying to false
C29_SoundingUnshown ==
    /\ LatestToneSounding
    /\ Len(hook.tones) = 2
    /\ hook.last = <<"ended", 1>>
    /\ ~hook.isPlaying
    /\ hook.playingFreq = Null

\* stop() has just run and the second tone is still sounding
C29_StopMissesTone ==
    /\ hook.kind = "useTonePlayer"
    /\ hook.last = <<"stop">>
    /\ Len(hook.tones) = 2
    /\ Sounding = {2}

\* a tone that replaced no other is shown while it sounds, and stop()
\* silences it
C29_FirstTone ==
    (hook.kind = "useTonePlayer" /\ Len(hook.tones) = 1) =>
        /\ LatestToneSounding => ShowsLatestTone
        /\ hook.last = <<"stop">> => Sounding = {}

\* a safety timeout is pending only for the tone of the latest play()
C29_OneSafetyTimeout ==
    hook.kind = "useTonePlayer" => hook.timeouts \subseteq {Len(hook.tones)}

====
